---- MODULE Spec2Model ----
(***************************************************************************)
(* Record linkage of the two scraped NCL catalogues (sl5228/Taiwan_Scraper).*)
(* The model covers the merger scripts DataMerger.py (Policy A),           *)
(* DataMerger2.py (Policy B) and DataMerger4.py (Policy C): text           *)
(* normalisation, field extraction, key building, similarity scoring, the  *)
(* two-phase merge, the result writer and main().                          *)
(*                                                                         *)
(* Encoding.  A Python str is a sequence of characters; a character is a   *)
(* TLA+ string naming it ("a", "A", " ", ".", "FW_COMMA" for U+FF0C, "ZH"  *)
(* for a CJK ideograph, ...).  None / NaN text is the one-element sequence *)
(* NULL whose element is no character of any alphabet.                      *)
(***************************************************************************)
EXTENDS Integers, Sequences, FiniteSets, TLC

VARIABLES
    pc,         \* position of the running script / function under check
    inp,        \* arguments of the pure function under check
    out,        \* its results
    policy,     \* the merger script that runs: "A" DataMerger.py,
                \* "B" DataMerger2.py, "C" DataMerger4.py
    src1,       \* table books of ncl_subject_books_details.db, or no file
    src2,       \* table books of ncl_subject_books.db, or no file
    df1,        \* the detailed dataset as prepared by load_and_prepare_dataset1
    df2,        \* the summary dataset as prepared by load_and_prepare_dataset2
    merged,     \* merged_df returned by merge_datasets
    unmatched1, \* unmatched_df1 returned by merge_datasets
    unmatched2, \* unmatched_df2 returned by merge_datasets
    dest        \* the relations of merged_ncl_books.db

fnVars == <<inp, out>>

mainVars == <<policy, src1, src2, df1, df2, merged, unmatched1, unmatched2, dest>>

vars == <<pc, inp, out, policy, src1, src2, df1, df2, merged, unmatched1,
          unmatched2, dest>>

----------------------------------------------------------------------------
(* Bounds of the model *)

\* longest text enumerated for normalize_text
MaxLen == 5

\* longest string enumerated for similarity_score
MaxSimLen == 4

\* most rows of a source table
MaxRows == 2
MaxYearLen == 6
MaxAuthorLen == 4
MaxTitleLen == 5
MaxRetriesArg == 3

----------------------------------------------------------------------------
(* Characters *)

NULL == <<"<None>">>

\* the sequences over S of length at most n
SeqsUpTo(S, n) == UNION {[1..k -> S] : k \in 0..n}

\* "missing", the placeholder the scrapers store for an absent field
Missing == <<"m", "i", "s", "s", "i", "n", "g">>

\* str.isspace(): U+0020 and U+3000 (ideographic space)
IsWS(c) == c \in {" ", "IDSP"}

\* unicodedata.normalize('NFKC', .) on one character: the full-width forms
\* fold to their ASCII counterparts, U+3000 folds to a space; U+3001,
\* U+3002, U+3010, U+3011 have no compatibility mapping.
NFKCChar(c) ==
    CASE c = "FW_COMMA"  -> ","
      [] c = "FW_SEMI"   -> ";"
      [] c = "FW_COLON"  -> ":"
      [] c = "FW_EXCL"   -> "!"
      [] c = "FW_QUEST"  -> "?"
      [] c = "FW_LPAREN" -> "("
      [] c = "FW_RPAREN" -> ")"
      [] c = "FW_A"      -> "A"
      [] c = "IDSP"      -> " "
      [] OTHER           -> c

\* str.lower() on one character
LowerChar(c) ==
    CASE c = "A" -> "a"
      [] c = "B" -> "b"
      [] c = "C" -> "c"
      [] c = "M" -> "m"
      [] c = "I" -> "i"
      [] c = "S" -> "s"
      [] c = "N" -> "n"
      [] c = "G" -> "g"
      [] OTHER   -> c

\* The character class of the re.sub in normalize_text.  The pattern is two
\* adjacent literals, r'[.,;:!?\[\]()"""' and '、。，；：！？【】（）]': the
\* two apostrophes between them end and start the literals, so U+0027 is
\* not in the class.
StrippedPunct ==
    {".", ",", ";", ":", "!", "?", "[", "]", "(", ")", "DQUOTE",
     "IDEO_COMMA", "IDEO_STOP", "FW_COMMA", "FW_SEMI", "FW_COLON",
     "FW_EXCL", "FW_QUEST", "LENT_L", "LENT_R", "FW_LPAREN", "FW_RPAREN"}

----------------------------------------------------------------------------
(* normalize_text *)

\* unicodedata.normalize('NFKC', text)
NFKC(t) == [i \in 1..Len(t) |-> NFKCChar(t[i])]

\* text.lower()
Lower(t) == [i \in 1..Len(t) |-> LowerChar(t[i])]

\* ' '.join(text.split()): leading and trailing whitespace dropped, every
\* inner run of whitespace replaced by one space
JoinSplit(t) ==
    LET n == Len(t)
        keep(i) == \/ ~IsWS(t[i])
                   \/ /\ i > 1
                      /\ ~IsWS(t[i-1])
                      /\ \E j \in (i+1)..n : ~IsWS(t[j])
        F[i \in 0..n] ==
            IF i = 0 THEN <<>>
            ELSE IF keep(i)
                 THEN Append(F[i-1], IF IsWS(t[i]) THEN " " ELSE t[i])
                 ELSE F[i-1]
    IN F[n]

\* re.sub(r'[...]', '', text)
StripPunct(t) == SelectSeq(t, LAMBDA c : c \notin StrippedPunct)

\* str.strip()
Strip(t) ==
    LET n  == Len(t)
        nz == {i \in 1..n : ~IsWS(t[i])}
    IN IF nz = {} THEN <<>>
       ELSE LET lo == CHOOSE i \in nz : \A j \in nz : i <= j
                hi == CHOOSE i \in nz : \A j \in nz : j <= i
            IN SubSeq(t, lo, hi)

\* variant: the sentinel recognised after trimming and case folding
normalize_text_sentinel_folded(text) ==
    IF text = NULL \/ Lower(Strip(text)) = Missing
    THEN <<>>
    ELSE Strip(StripPunct(Lower(JoinSplit(NFKC(text)))))

normalize_text(text) ==
    IF text = NULL \/ text = Missing
    THEN <<>>
    ELSE Strip(StripPunct(Lower(JoinSplit(NFKC(text)))))

----------------------------------------------------------------------------
(* Python values of a year cell: None, an int, a float, or float NaN *)

PyNone     == [k |-> "None",  v |-> 0]
PyNaN      == [k |-> "nan",   v |-> 0]
PyInt(n)   == [k |-> "int",   v |-> n]
PyFloat(n) == [k |-> "float", v |-> n]

\* bool(y): None and zero are false; every other number, NaN included, is true
Truthy(y) == y.k = "nan" \/ (y.k \in {"int", "float"} /\ y.v # 0)

\* pd.isna(y)
IsNa(y) == y.k \in {"None", "nan"}

\* y1 != y2 of two numbers: NaN differs from everything, 1999.0 == 1999
PyNotEqual(y1, y2) ==
    \/ y1.k = "nan" \/ y2.k = "nan"
    \/ (y1.k = "None") # (y2.k = "None")
    \/ (y1.k # "None" /\ y2.k # "None" /\ y1.v # y2.v)

Digits == {"0", "1", "2", "3", "4", "5", "6", "7", "8", "9"}

DigitVal(c) ==
    CASE c = "0" -> 0 [] c = "1" -> 1 [] c = "2" -> 2 [] c = "3" -> 3
      [] c = "4" -> 4 [] c = "5" -> 5 [] c = "6" -> 6 [] c = "7" -> 7
      [] c = "8" -> 8 [] c = "9" -> 9

DigitChar(d) ==
    CASE d = 0 -> "0" [] d = 1 -> "1" [] d = 2 -> "2" [] d = 3 -> "3"
      [] d = 4 -> "4" [] d = 5 -> "5" [] d = 6 -> "6" [] d = 7 -> "7"
      [] d = 8 -> "8" [] d = 9 -> "9"

\* int(s) of a digit string
RECURSIVE IntOf(_)
IntOf(s) ==
    IF s = <<>> THEN 0
    ELSE 10 * IntOf(SubSeq(s, 1, Len(s) - 1)) + DigitVal(s[Len(s)])

\* str(n) of a non-negative int
RECURSIVE StrOfNat(_)
StrOfNat(n) ==
    IF n < 10 THEN <<DigitChar(n)>>
    ELSE Append(StrOfNat(n \div 10), DigitChar(n % 10))

\* str(y) of an int or a whole float: "1999", "1999.0"
PyStr(y) ==
    IF y.k = "float" THEN StrOfNat(y.v) \o <<".", "0">> ELSE StrOfNat(y.v)

----------------------------------------------------------------------------
(* extract_year_from_text, extract_author_from_text, create_composite_key *)

MinYear == 1800
MaxYear == 2030

\* re.search(r'(\d{4})', text): the leftmost four consecutive digits, also
\* when they start a longer run; None when the value is out of range
\* (the search is not continued)
extract_year_from_text(text) ==
    IF text = NULL \/ text = Missing THEN PyNone
    ELSE LET starts == {i \in 1..(Len(text) - 3) :
                           \A j \in i..(i+3) : text[j] \in Digits}
         IN IF starts = {} THEN PyNone
            ELSE LET i0   == CHOOSE i \in starts : \A j \in starts : i <= j
                     year == IntOf(SubSeq(text, i0, i0 + 3))
                 IN IF MinYear <= year /\ year <= MaxYear
                    THEN PyInt(year) ELSE PyNone

\* character class of the trailing-marker regex: DataMerger.py has the
\* simplified U+7F16 twice, DataMerger2.py has the traditional U+7DE8 too
MarkerClassA ==
    {"zhu4_U8457", "bian1_U7F16", "zhu3_U4E3B", "zhuan4_U64B0",
     "xie3_U5199", "zuo4_U4F5C", "zhe3_U8005"}
MarkerClassB == MarkerClassA \cup {"bian1_U7DE8"}

\* text.split(sep)[0] when sep occurs in text, else text
BeforeFirst(text, sep) ==
    LET at == {i \in 1..Len(text) : text[i] = sep}
    IN IF at = {} THEN text
       ELSE SubSeq(text, 1, (CHOOSE i \in at : \A j \in at : i <= j) - 1)

\* variant of the extraction: the text is cut at the first comma only
extract_author_comma_only(text, markers) ==
    IF text = NULL \/ text = Missing THEN <<>>
    ELSE Strip(BeforeFirst(IF Len(text) > 0 /\ text[Len(text)] \in markers
                           THEN SubSeq(text, 1, Len(text) - 1) ELSE text, ","))

\* One trailing character of the class is removed (the texts of the model
\* hold no line feed, before which "$" would match as well).
extract_author_with(text, markers) ==
    IF text = NULL \/ text = Missing THEN <<>>
    ELSE LET n  == Len(text)
             t1 == IF n > 0 /\ text[n] \in markers
                   THEN SubSeq(text, 1, n - 1) ELSE text
             t2 == BeforeFirst(t1, ",")
             t3 == BeforeFirst(t2, "FW_SEMI")
             t4 == BeforeFirst(t3, ";")
         IN Strip(t4)

extract_author_from_text(text) == extract_author_with(text, MarkerClassA)

extract_author_from_text2(text) == extract_author_with(text, MarkerClassB)

Unknown == <<"u", "n", "k", "n", "o", "w", "n">>

\* str(year) if year and not pd.isna(year) else "unknown"
YearStr(year) ==
    IF Truthy(year) /\ ~IsNa(year) THEN PyStr(year) ELSE Unknown

create_composite_key(title, author, year) ==
    normalize_text(title) \o <<"|">>
        \o normalize_text(extract_author_from_text(author)) \o <<"|">>
        \o YearStr(year)

create_composite_key2(title, author, year) ==
    normalize_text(title) \o <<"|">>
        \o normalize_text(extract_author_from_text2(author)) \o <<"|">>
        \o YearStr(year)

----------------------------------------------------------------------------
(* similarity_score: difflib.SequenceMatcher(None, str1, str2).ratio().
   Scores are exact fractions [num, den], den > 0.  The autojunk heuristic
   of SequenceMatcher acts only on a second string of 200 characters or
   more and has no part in the texts of the model. *)

Min(x, y) == IF x <= y THEN x ELSE y

\* length of the longest common run starting at a[i] and b[j] inside
\* a[..ahi], b[..bhi]
RunLen(a, b, i, j, ahi, bhi) ==
    LET lim == Min(ahi - i + 1, bhi - j + 1)
        ok  == {k \in 0..lim : \A m \in 0..(k-1) : a[i+m] = b[j+m]}
    IN CHOOSE k \in ok : \A k2 \in ok : k2 <= k

\* find_longest_match(alo, ahi, blo, bhi) without junk: the longest block;
\* of the longest blocks the one starting earliest in a, and of those the
\* one starting earliest in b.  Ranges are 1-based and inclusive here.
find_longest_match(a, b, alo, ahi, blo, bhi) ==
    LET cells == (alo..ahi) \X (blo..bhi)
        len(c) == RunLen(a, b, c[1], c[2], ahi, bhi)
    IN IF cells = {} THEN <<alo, blo, 0>>
       ELSE LET best == CHOOSE c \in cells :
                           \A d \in cells :
                               \/ len(d) < len(c)
                               \/ /\ len(d) = len(c)
                                  /\ \/ c[1] < d[1]
                                     \/ (c[1] = d[1] /\ c[2] <= d[2])
            IN IF len(best) = 0 THEN <<alo, blo, 0>>
               ELSE <<best[1], best[2], len(best)>>

\* get_matching_blocks: the longest block, then the same to its left and
\* to its right; the sum of the block sizes
RECURSIVE matching_total(_, _, _, _, _, _)
matching_total(a, b, alo, ahi, blo, bhi) ==
    LET m == find_longest_match(a, b, alo, ahi, blo, bhi)
        i == m[1]
        j == m[2]
        k == m[3]
    IN IF k = 0 THEN 0
       ELSE k
            + (IF alo < i /\ blo < j
               THEN matching_total(a, b, alo, i - 1, blo, j - 1) ELSE 0)
            + (IF i + k <= ahi /\ j + k <= bhi
               THEN matching_total(a, b, i + k, ahi, j + k, bhi) ELSE 0)

\* variant: the factor 2 of the ratio left out
similarity_score_halved(str1, str2) ==
    IF str1 = <<>> \/ str2 = <<>>
    THEN [num |-> 0, den |-> 1]
    ELSE [num |-> matching_total(str1, str2, 1, Len(str1), 1, Len(str2)),
          den |-> Len(str1) + Len(str2)]

similarity_score(str1, str2) ==
    IF str1 = <<>> \/ str2 = <<>>
    THEN [num |-> 0, den |-> 1]
    ELSE [num |-> 2 * matching_total(str1, str2, 1, Len(str1), 1, Len(str2)),
          den |-> Len(str1) + Len(str2)]

----------------------------------------------------------------------------
(* Scores as fractions *)

Frac(n, d) == [num |-> n, den |-> d]

FracGT(x, y) == x.num * y.den > y.num * x.den

FracGE(x, y) == x.num * y.den >= y.num * x.den

\* similarity_threshold / title_similarity_threshold = 0.85
\* variant: a title threshold of one half
TitleThresholdHalf == Frac(50, 100)

TitleThreshold == Frac(85, 100)

\* author_similarity_threshold = 0.80
AuthorThreshold == Frac(80, 100)

\* (title_sim * 0.7) + (author_sim * 0.3)
combined_score(title_sim, author_sim) ==
    Frac(7 * title_sim.num * author_sim.den + 3 * author_sim.num * title_sim.den,
         10 * title_sim.den * author_sim.den)

\* the component scores a Policy A row does not carry
NoScore == Frac(-1, 1)

----------------------------------------------------------------------------
(* The scraped source tables *)

\* variant of the split: on the last "/"
split_title_author_on_last(title) ==
    LET at == {i \in 1..Len(title) : title[i] = "/"}
    IN IF title = Missing
       THEN [title_cleaned |-> Missing, author_cleaned |-> Missing]
       ELSE IF at = {}
       THEN [title_cleaned |-> title, author_cleaned |-> Missing]
       ELSE LET i0 == CHOOSE i \in at : \A j \in at : i >= j
            IN [title_cleaned  |-> Strip(SubSeq(title, 1, i0 - 1)),
                author_cleaned |-> Strip(SubSeq(title, i0 + 1, Len(title)))]

\* process_book_details: the raw title split on its first "/"
split_title_author(title) ==
    LET at == {i \in 1..Len(title) : title[i] = "/"}
    IN IF title = Missing
       THEN [title_cleaned |-> Missing, author_cleaned |-> Missing]
       ELSE IF at = {}
       THEN [title_cleaned |-> title, author_cleaned |-> Missing]
       ELSE LET i0 == CHOOSE i \in at : \A j \in at : i <= j
            IN [title_cleaned  |-> Strip(SubSeq(title, 1, i0 - 1)),
                author_cleaned |-> Strip(SubSeq(title, i0 + 1, Len(title)))]

\* a row of the detailed table as the scraper stores it
DetailedRow(title, imprint, publication) ==
    [title          |-> title,
     title_cleaned  |-> split_title_author(title).title_cleaned,
     author_cleaned |-> split_title_author(title).author_cleaned,
     imprint        |-> imprint,
     publication    |-> publication]

\* a row of the summary table as the scraper stores it
SummaryRow(title, author, year) ==
    [title |-> title, author |-> author, year |-> year]

Y1999 == <<"1", "9", "9", "9">>
Y2000 == <<"2", "0", "0", "0">>
Y1750 == <<"1", "7", "5", "0">>
UnknownYear == <<"U", "n", "k", "n", "o", "w", "n">>

DetailedPool ==
    { DetailedRow(<<"a", "b", "c">>, <<"ZH">> \o Y1999, Missing),
      DetailedRow(<<"a", "b", "c", " ", "/", " ", "a", "b">>, Y1999 \o <<".">>, Missing),
      DetailedRow(<<"a", "b", "c", "d">>, Missing, <<"c">> \o Y2000),
      DetailedRow(<<"A", "B", "c", ".">>, Missing, Missing),
      DetailedRow(<<"e", "f", "g">>, Y1750, Missing),
      DetailedRow(<<"a", "b", "c", " ", "/">>, Y1999, Missing) }

SummaryPool ==
    { SummaryRow(<<"a", "b", "c">>, <<>>, Y1999),
      SummaryRow(<<"a", "b", "c", "d">>, <<"a", "b", "c">>, Y1999),
      SummaryRow(<<"a", "b", "c">>, <<"a", "b", ",", "c">>, UnknownYear),
      SummaryRow(<<"a", "b", "c">>, <<"a", "b">>, Y2000),
      SummaryRow(<<"e", "f", "g">>, <<>>, Y1750),
      SummaryRow(<<"A", "B", "C">>, <<"a", "b">>, Y1999) }

\* a database file: absent, or holding table books with 0..MaxRows rows
NoFile == [exists |-> FALSE, rows |-> <<>>]

Tables(pool) == {[exists |-> TRUE, rows |-> r] : r \in SeqsUpTo(pool, MaxRows)}

----------------------------------------------------------------------------
(* load_and_prepare_dataset1 / load_and_prepare_dataset2 *)

\* Series.apply infers the dtype of the column it returns: all ints give
\* int64; ints and None give float64 with NaN for None; all None stays an
\* object column of None
InferColumn(vals) ==
    LET n       == Len(vals)
        anyNone == \E i \in 1..n : vals[i].k = "None"
        anyInt  == \E i \in 1..n : vals[i].k = "int"
    IN IF anyNone /\ anyInt
       THEN [i \in 1..n |-> IF vals[i].k = "None" THEN PyNaN
                            ELSE PyFloat(vals[i].v)]
       ELSE vals

\* a value stored into a float64 column
AsFloat(y) == IF y.k = "int" THEN PyFloat(y.v)
              ELSE IF y.k = "None" THEN PyNaN ELSE y

\* lines 107-108: the year from imprint and, where that is missing, from
\* publication, written back into the column
extracted_year_column(rows) ==
    LET n    == Len(rows)
        col0 == InferColumn([i \in 1..n |-> extract_year_from_text(rows[i].imprint)])
        mask == {i \in 1..n : IsNa(col0[i])}
        \* the masked rows in order, and the column apply returns for them
        Rank(i) == Cardinality({j \in mask : j <= i})
        sub  == [k \in 1..Cardinality(mask) |->
                    extract_year_from_text(
                        rows[CHOOSE i \in mask : Rank(i) = k].publication)]
        rhs  == InferColumn(sub)
        isFloatCol == \E i \in 1..n : col0[i].k \in {"float", "nan"}
    IN [i \in 1..n |->
          IF i \notin mask THEN col0[i]
          ELSE IF isFloatCol THEN AsFloat(rhs[Rank(i)])
          ELSE rhs[Rank(i)]]

\* str(x).isdigit()
IsDigitStr(x) == x # NULL /\ Len(x) > 0 /\ \A i \in 1..Len(x) : x[i] \in Digits

\* line 136: int(x) if str(x).isdigit() else None
year_int_column(rows) ==
    InferColumn([i \in 1..Len(rows) |->
                    IF IsDigitStr(rows[i].year) THEN PyInt(IntOf(rows[i].year))
                    ELSE PyNone])

\* pd.DataFrame(): what the loaders return when the file does not exist
EmptyFrame == <<>>

\* idx is the index label of the row
load_and_prepare_dataset1(db, pol) ==
    IF ~db.exists THEN EmptyFrame
    ELSE IF pol = "C"
    THEN [i \in 1..Len(db.rows) |->
            [idx |-> i, row |-> db.rows[i],
             title_cleaned  |-> IF db.rows[i].title_cleaned = NULL THEN <<>>
                                ELSE db.rows[i].title_cleaned,
             author_cleaned |-> IF db.rows[i].author_cleaned = NULL THEN <<>>
                                ELSE db.rows[i].author_cleaned,
             extracted_year |-> PyNone, composite_key |-> <<>>]]
    ELSE LET years == extracted_year_column(db.rows)
         IN [i \in 1..Len(db.rows) |->
               [idx |-> i, row |-> db.rows[i],
                title_cleaned  |-> db.rows[i].title_cleaned,
                author_cleaned |-> db.rows[i].author_cleaned,
                extracted_year |-> years[i],
                composite_key  |->
                    IF pol = "A"
                    THEN create_composite_key(db.rows[i].title, <<>>, years[i])
                    ELSE create_composite_key2(db.rows[i].title_cleaned,
                                               db.rows[i].author_cleaned,
                                               years[i])]]

load_and_prepare_dataset2(db, pol) ==
    IF ~db.exists THEN EmptyFrame
    ELSE IF pol = "C"
    THEN [i \in 1..Len(db.rows) |->
            [idx |-> i, row |-> db.rows[i],
             title  |-> IF db.rows[i].title = NULL THEN <<>> ELSE db.rows[i].title,
             author |-> IF db.rows[i].author = NULL THEN <<>> ELSE db.rows[i].author,
             year_int |-> PyNone, composite_key |-> <<>>]]
    ELSE LET years == year_int_column(db.rows)
         IN [i \in 1..Len(db.rows) |->
               [idx |-> i, row |-> db.rows[i],
                title  |-> db.rows[i].title,
                author |-> db.rows[i].author,
                year_int |-> years[i],
                composite_key |->
                    IF pol = "A"
                    THEN create_composite_key(db.rows[i].title, db.rows[i].author, years[i])
                    ELSE create_composite_key2(db.rows[i].title, db.rows[i].author, years[i])]]

----------------------------------------------------------------------------
(* merge_datasets *)

\* the sequence of the elements of s whose position satisfies keep
SelectRows(s, keepSet) ==
    LET F[i \in 0..Len(s)] ==
            IF i = 0 THEN <<>>
            ELSE IF i \in keepSet THEN Append(F[i-1], s[i]) ELSE F[i-1]
    IN F[Len(s)]

\* variant of the join: a left row is joined with its first partner only
exact_pairs_first_partner(d1, d2) ==
    LET n1 == Len(d1)
        n2 == Len(d2)
        all == [k \in 1..(n1 * n2) |-> <<((k - 1) \div n2) + 1, ((k - 1) % n2) + 1>>]
        same(k) == d1[all[k][1]].composite_key = d2[all[k][2]].composite_key
    IN SelectRows(all, {k \in 1..(n1 * n2) :
                          /\ same(k)
                          /\ \A j \in 1..(k - 1) : all[j][1] = all[k][1] => ~same(j)})

\* pd.merge(df1, df2, on='composite_key', how='inner'): one row for every
\* pair of rows with equal keys, in the order of the left rows
exact_pairs(d1, d2) ==
    LET n1 == Len(d1)
        n2 == Len(d2)
        all == [k \in 1..(n1 * n2) |-> <<((k - 1) \div n2) + 1, ((k - 1) % n2) + 1>>]
    IN SelectRows(all, {k \in 1..(n1 * n2) :
                          d1[all[k][1]].composite_key = d2[all[k][2]].composite_key})

ExactRow(pair, pol) ==
    [d |-> pair[1], s |-> pair[2], match_type |-> "exact",
     similarity_score  |-> Frac(1, 1),
     title_similarity  |-> IF pol = "B" THEN Frac(1, 1) ELSE NoScore,
     author_similarity |-> IF pol = "B" THEN Frac(1, 1) ELSE NoScore]

\* variant: the frame is passed on to the fuzzy phase whole
without_exact_keys_unfiltered(d, keys) == d

\* df[~df['composite_key'].isin(exact_matches['composite_key'])]
without_exact_keys(d, keys) ==
    SelectRows(d, {i \in 1..Len(d) : d[i].composite_key \notin keys})

\* variant of the gate: the years are compared as written, so that the
\* float 1999.0 and the int 1999 differ
year_gate_skips_as_written(year1, year2) ==
    Truthy(year1) /\ Truthy(year2) /\ year1 # year2

\* lines 172-174: the pair is skipped when both years are true values and differ
year_gate_skips(year1, year2) ==
    Truthy(year1) /\ Truthy(year2) /\ PyNotEqual(year1, year2)

\* the state of the scan for one detailed row: m is the position of
\* best_match among the remaining summary rows, 0 for None
NoMatch ==
    [m |-> 0, score |-> Frac(0, 1), title_sim |-> NoScore, author_sim |-> NoScore]

\* Policy A, lines 179-181
accept_A(prev, k, title_sim) ==
    IF FracGT(title_sim, TitleThreshold) /\ FracGT(title_sim, prev.score)
    THEN [m |-> k, score |-> title_sim,
          title_sim |-> NoScore, author_sim |-> NoScore]
    ELSE prev

\* Policy A, lines 170-181: one pass of the inner loop
consider_A(prev, k, row1, row2) ==
    IF year_gate_skips(row1.extracted_year, row2.year_int)
    THEN prev
    ELSE accept_A(prev, k, similarity_score(normalize_text(row1.row.title),
                                            normalize_text(row2.title)))

\* Policy B, DataMerger2.py lines 202-211
\* variant of the acceptance test: the author threshold is left out
accept_B_title_only(prev, k, title_sim, author_sim) ==
    IF /\ FracGE(title_sim, TitleThreshold)
       /\ FracGT(combined_score(title_sim, author_sim), prev.score)
    THEN [m |-> k, score |-> combined_score(title_sim, author_sim),
          title_sim |-> title_sim, author_sim |-> author_sim]
    ELSE prev

accept_B(prev, k, title_sim, author_sim) ==
    IF /\ FracGE(title_sim, TitleThreshold)
       /\ FracGE(author_sim, AuthorThreshold)
       /\ FracGT(combined_score(title_sim, author_sim), prev.score)
    THEN [m |-> k, score |-> combined_score(title_sim, author_sim),
          title_sim |-> title_sim, author_sim |-> author_sim]
    ELSE prev

\* Policy B, DataMerger2.py lines 185-211: one pass of the inner loop
consider_B(prev, k, row1, row2) ==
    IF year_gate_skips(row1.extracted_year, row2.year_int)
    THEN prev
    ELSE accept_B(prev, k,
                  similarity_score(normalize_text(row1.title_cleaned),
                                   normalize_text(row2.title)),
                  similarity_score(normalize_text(row1.author_cleaned),
                                   normalize_text(row2.author)))

\* the inner loop over the remaining summary rows u2, in their order
best_match(row1, u2, pol) ==
    LET F[k \in 0..Len(u2)] ==
            IF k = 0 THEN NoMatch
            ELSE IF pol = "A" THEN consider_A(F[k-1], k, row1, u2[k])
                 ELSE consider_B(F[k-1], k, row1, u2[k])
    IN F[Len(u2)]

\* lines 183-210: the merged record of a detailed row and its best_match
FuzzyRow(row1, u2, b) ==
    [d |-> row1.idx, s |-> u2[b.m].idx, match_type |-> "fuzzy",
     similarity_score  |-> b.score,
     title_similarity  |-> b.title_sim,
     author_similarity |-> b.author_sim]

append_if_matched(rows, row1, u2, b) ==
    IF b.m = 0 THEN rows ELSE Append(rows, FuzzyRow(row1, u2, b))

\* variant of the outer loop: an accepted summary row leaves the pool
consume_with(st, row1, b) ==
    IF b.m = 0 THEN st
    ELSE [rows |-> Append(st.rows, FuzzyRow(row1, st.pool, b)),
          pool |-> SubSeq(st.pool, 1, b.m - 1) \o SubSeq(st.pool, b.m + 1, Len(st.pool))]

consume_step(st, row1, pol) == consume_with(st, row1, best_match(row1, st.pool, pol))

fuzzy_rows_consuming(u1, u2, pol) ==
    LET F[k \in 0..Len(u1)] ==
            IF k = 0 THEN [rows |-> <<>>, pool |-> u2]
            ELSE consume_step(F[k-1], u1[k], pol)
    IN F[Len(u1)].rows

\* the outer loop: the fuzzy rows, one for every remaining detailed row
\* with a best_match
fuzzy_rows(u1, u2, pol) ==
    LET F[k \in 0..Len(u1)] ==
            IF k = 0 THEN <<>>
            ELSE append_if_matched(F[k-1], u1[k], u2, best_match(u1[k], u2, pol))
    IN F[Len(u1)]

ExactRows(ex, pol) == [k \in 1..Len(ex) |-> ExactRow(ex[k], pol)]

\* exact_matches['composite_key']
ExactKeys(d1, ex) == {d1[ex[k][1]].composite_key : k \in 1..Len(ex)}

\* lines 162-225: the fuzzy phase and the returned triple
merge_result(ex, u1, u2, pol) ==
    [raised     |-> FALSE,
     merged     |-> ExactRows(ex, pol) \o fuzzy_rows(u1, u2, pol),
     unmatched1 |-> u1,
     unmatched2 |-> u2]

\* lines 156-158
merge_after_exact(d1, d2, ex, pol) ==
    merge_result(ex,
                 without_exact_keys(d1, ExactKeys(d1, ex)),
                 without_exact_keys(d2, ExactKeys(d1, ex)),
                 pol)

\* Policies A and B (DataMerger.py 146-225, DataMerger2.py 154-261)
merge_by_key(d1, d2, pol) == merge_after_exact(d1, d2, exact_pairs(d1, d2), pol)

\* the columns of the two books tables
DetailedColumns ==
    {"subject", "search_period", "url", "record_number", "title",
     "title_cleaned", "author_cleaned", "language", "imprint", "publication"}

SummaryColumns ==
    {"title", "url", "author", "publisher", "year", "call_number", "subject"}

\* the columns of pd.merge(..., suffixes=('_detailed', '_summary')): a name
\* on both sides gets the suffixes, a name on one side is kept
MergedColumns ==
    LET both == DetailedColumns \cap SummaryColumns
    IN ((DetailedColumns \cup SummaryColumns) \ both)
       \cup {c \o "_detailed" : c \in both}
       \cup {c \o "_summary" : c \in both}

\* pd.merge(df1, df2, left_on=['title_cleaned', 'author_cleaned'],
\* right_on=['title', 'author'], how='inner')
field_pairs(d1, d2) ==
    LET n1  == Len(d1)
        n2  == Len(d2)
        all == [k \in 1..(n1 * n2) |-> <<((k - 1) \div n2) + 1, ((k - 1) % n2) + 1>>]
    IN SelectRows(all, {k \in 1..(n1 * n2) :
                          /\ d1[all[k][1]].title_cleaned  = d2[all[k][2]].title
                          /\ d1[all[k][1]].author_cleaned = d2[all[k][2]].author})

\* the (title_cleaned, author_cleaned) pairs of the joined rows
JoinedKeys(d1, ex) ==
    {<<d1[ex[k][1]].title_cleaned, d1[ex[k][1]].author_cleaned>> : k \in 1..Len(ex)}

\* DataMerger4.py lines 66-85
fields_result(d1, d2, ex, dk) ==
    [raised     |-> FALSE,
     merged     |-> ExactRows(ex, "C"),
     unmatched1 |-> SelectRows(d1, {i \in 1..Len(d1) :
                       <<d1[i].title_cleaned, d1[i].author_cleaned>> \notin dk}),
     unmatched2 |-> SelectRows(d2, {i \in 1..Len(d2) :
                       <<d2[i].title, d2[i].author>> \notin dk})]

KeyErrorRaised ==
    [raised |-> TRUE, merged |-> <<>>, unmatched1 |-> <<>>, unmatched2 |-> <<>>]

fields_after_join(d1, d2, ex) ==
    IF {"title_summary", "author_summary"} \subseteq MergedColumns
    THEN fields_result(d1, d2, ex, JoinedKeys(d1, ex))
    ELSE KeyErrorRaised

\* Policy C (DataMerger4.py 50-85): the join on (title_cleaned,
\* author_cleaned) = (title, author); line 75 selects the columns
\* title_summary and author_summary of the joined frame and raises KeyError
\* when one of them is not a column of it
merge_by_fields(d1, d2) == fields_after_join(d1, d2, field_pairs(d1, d2))

merge_datasets(d1, d2, pol) ==
    IF pol = "C" THEN merge_by_fields(d1, d2) ELSE merge_by_key(d1, d2, pol)

----------------------------------------------------------------------------
(* save_results *)

NoTable == [exists |-> FALSE, rows |-> <<>>]

\* DataFrame.to_sql(name, conn, if_exists='replace', index=False): the
\* table is dropped if it exists and created from the frame, the index
\* labels are not written
to_sql_replace(old, frame) ==
    [exists |-> TRUE,
     rows   |-> [i \in 1..Len(frame) |-> [frame[i] EXCEPT !.idx = 0]]]

\* variant: if_exists='append'
to_sql_append(old, frame) ==
    [exists |-> TRUE,
     rows   |-> old.rows \o [i \in 1..Len(frame) |-> [frame[i] EXCEPT !.idx = 0]]]

\* variant of save_results writing with to_sql_append
save_results_appending(db, merged_df, unmatched_df1, unmatched_df2) ==
    [db EXCEPT
        !.merged_books       = [exists |-> TRUE, rows |-> @.rows \o merged_df],
        !.unmatched_detailed = to_sql_append(@, unmatched_df1),
        !.unmatched_summary  = to_sql_append(@, unmatched_df2)]

save_results(db, merged_df, unmatched_df1, unmatched_df2) ==
    [db EXCEPT
        !.merged_books       = [exists |-> TRUE, rows |-> merged_df],
        !.unmatched_detailed = to_sql_replace(@, unmatched_df1),
        !.unmatched_summary  = to_sql_replace(@, unmatched_df2)]

----------------------------------------------------------------------------
(* Inputs *)

NormAlphabet == {"a", "A", " ", ".", "ZH", "FW_COMMA"}

\* texts around the sentinel
SentinelTexts ==
    { Missing,
      <<"M", "i", "s", "s", "i", "n", "g">>,
      <<" ", "M", "I", "S", "S", "I", "N", "G", " ">>,
      <<"m", "i", "s", ".", "s", "i", "n", "g">>,
      <<"m", "i", "s", "s", "i", "n", "g", " ", "a">> }

NormTexts == SeqsUpTo(NormAlphabet, MaxLen) \cup SentinelTexts \cup {NULL}

\* the merger scripts are not running while a function is checked alone
MainIdle ==
    /\ policy = "-"
    /\ src1 = NoFile /\ src2 = NoFile
    /\ df1 = <<>> /\ df2 = <<>>
    /\ merged = <<>> /\ unmatched1 = <<>> /\ unmatched2 = <<>>
    /\ dest = <<>>

----------------------------------------------------------------------------
(* Specification SpecNorm: normalize_text applied once, then to its result *)

InitNorm ==
    /\ MainIdle
    /\ pc = "norm_in"
    /\ inp \in {[text |-> t] : t \in NormTexts}
    /\ out = [once |-> <<>>, twice |-> <<>>]

NormalizeOnce ==
    /\ pc = "norm_in"
    /\ out' = [out EXCEPT !.once = normalize_text(inp.text)]
    /\ pc' = "norm_once"
    /\ UNCHANGED <<inp, mainVars>>

NormalizeTwice ==
    /\ pc = "norm_once"
    /\ out' = [out EXCEPT !.twice = normalize_text(out.once)]
    /\ pc' = "norm_twice"
    /\ UNCHANGED <<inp, mainVars>>

NextNorm == NormalizeOnce \/ NormalizeTwice

SpecNorm == InitNorm /\ [][NextNorm]_vars

\* C4: normalize_text is idempotent: normalising a normalised text changes
\* nothing, normalize_text(normalize_text(t)) = normalize_text(t).
C4_NormalizeIdempotent ==
    pc = "norm_twice" => out.twice = out.once

\* the text equals "missing" once trimmed and lower-cased
SentinelLike(t) == t # NULL /\ Lower(Strip(t)) = Missing

\* The form the claim describes, as one filter over the NFKC-folded,
\* lower-cased characters u: punctuation goes; a whitespace character stays
\* (as one space) only if it is the first of its run, follows a
\* non-whitespace character, a non-whitespace character follows somewhere
\* (the collapse), and a character that is neither whitespace nor
\* punctuation stands somewhere before and somewhere after it (the trim).
PipelineForm(t) ==
    LET u == [i \in 1..Len(t) |-> LowerChar(NFKCChar(t[i]))]
        n == Len(u)
        ws(i)    == IsWS(u[i])
        solid(i) == ~ws(i) /\ u[i] \notin StrippedPunct
        kept(i)  == /\ u[i] \notin StrippedPunct
                    /\ \/ ~ws(i)
                       \/ /\ i > 1 /\ ~ws(i-1)
                          /\ \E j \in 1..(i-1) : solid(j)
                          /\ \E j \in (i+1)..n : solid(j)
        F[i \in 0..n] ==
            IF i = 0 THEN <<>>
            ELSE IF kept(i) THEN Append(F[i-1], IF ws(i) THEN " " ELSE u[i])
                 ELSE F[i-1]
    IN F[n]

----------------------------------------------------------------------------
(* Specification SpecKey: create_composite_key on (title, author, year) and
   on a second input that differs from it only in whitespace, letter case
   or a stripped punctuation character *)

KeyAlphabet == {"a", "A", " ", "."}

KeyTitles == SeqsUpTo(KeyAlphabet, MaxLen)

KeyAuthors ==
    { <<>>,
      <<"b">>,
      <<"b", ".", " ", "a">>,
      <<"b", "zhu4_U8457">> }

KeyYears == {PyNone, PyInt(1999), PyFloat(1999)}

SwapCase(c) == IF c = "a" THEN "A" ELSE IF c = "A" THEN "a" ELSE c

RemoveAt(t, i) == SubSeq(t, 1, i - 1) \o SubSeq(t, i + 1, Len(t))

InsertAt(t, i, c) == SubSeq(t, 1, i - 1) \o <<c>> \o SubSeq(t, i, Len(t))

\* the texts one such difference away from t
Variants(t) ==
    {RemoveAt(t, i) : i \in {j \in 1..Len(t) : t[j] \in StrippedPunct}}
    \cup {[t EXCEPT ![i] = SwapCase(t[i])] : i \in 1..Len(t)}
    \cup {InsertAt(t, i, " ") : i \in {j \in 1..Len(t) : IsWS(t[j])}}
    \cup {<<" ">> \o t, Append(t, " ")}

InitKey ==
    /\ MainIdle
    /\ pc = "key_in"
    /\ inp \in {[title |-> t, author |-> a, year |-> y,
                  title2 |-> t, author2 |-> a] :
                     t \in KeyTitles, a \in KeyAuthors, y \in KeyYears}
    /\ out = [key1 |-> <<>>, key2 |-> <<>>]

VaryTitle ==
    /\ pc = "key_in"
    /\ \E v \in Variants(inp.title) : inp' = [inp EXCEPT !.title2 = v]
    /\ pc' = "key_varied"
    /\ UNCHANGED <<out, mainVars>>

VaryAuthor ==
    /\ pc = "key_in"
    /\ \E v \in Variants(inp.author) : inp' = [inp EXCEPT !.author2 = v]
    /\ pc' = "key_varied"
    /\ UNCHANGED <<out, mainVars>>

BuildKeys ==
    /\ pc = "key_varied"
    /\ out' = [key1 |-> create_composite_key(inp.title, inp.author, inp.year),
               key2 |-> create_composite_key(inp.title2, inp.author2, inp.year)]
    /\ pc' = "key_done"
    /\ UNCHANGED <<inp, mainVars>>

NextKey == VaryTitle \/ VaryAuthor \/ BuildKeys

SpecKey == InitKey /\ [][NextKey]_vars

\* C5: create_composite_key gives the same key for two inputs that differ
\* only in whitespace, letter case or the stripped punctuation characters
\* (and, being a function of its arguments, the same key for equal inputs).
C5_KeyIgnoresSpacingCasePunct ==
    pc = "key_done" => out.key1 = out.key2

----------------------------------------------------------------------------
(* Specification SpecSim: similarity_score on two strings, and on a string
   and itself *)

SimAlphabet == {"a", "b", "c"}

SimTexts == SeqsUpTo(SimAlphabet, MaxSimLen)

InitSim ==
    /\ MainIdle
    /\ pc = "sim_in"
    /\ inp \in [a : SimTexts, b : SimTexts]
    /\ out = [score |-> [num |-> 0, den |-> 1]]

ScorePair ==
    /\ pc = "sim_in"
    /\ out' = [score |-> similarity_score(inp.a, inp.b)]
    /\ pc' = "sim_pair"
    /\ UNCHANGED <<inp, mainVars>>

ScoreSelf ==
    /\ pc = "sim_in"
    /\ inp.a = inp.b
    /\ out' = [score |-> similarity_score(inp.a, inp.a)]
    /\ pc' = "sim_self"
    /\ UNCHANGED <<inp, mainVars>>

NextSim == ScorePair \/ ScoreSelf

SpecSim == InitSim /\ [][NextSim]_vars

\* length of the longest substring common to a and b
LongestCommonSubstring(a, b) ==
    LET lens == {0} \cup
                {k \in 1..Min(Len(a), Len(b)) :
                    \E i \in 1..(Len(a) - k + 1), j \in 1..(Len(b) - k + 1) :
                        SubSeq(a, i, i + k - 1) = SubSeq(b, j, j + k - 1)}
    IN CHOOSE k \in lens : \A k2 \in lens : k2 <= k

\* C6: 0 <= similarity_score(a, b) <= 1; it is 0 when a or b is empty and
\* 1 for a non-empty string and itself; otherwise it is 2*M / (|a| + |b|)
\* where M, the total of the greedily matched blocks, is at least the
\* longest common substring and at most the shorter length.
C6_SimilarityBounds ==
    /\ pc \in {"sim_pair", "sim_self"} =>
          /\ out.score.den > 0
          /\ 0 <= out.score.num
          /\ out.score.num <= out.score.den
    /\ pc = "sim_pair" =>
          IF inp.a = <<>> \/ inp.b = <<>>
          THEN out.score.num = 0
          ELSE /\ out.score.den = Len(inp.a) + Len(inp.b)
               /\ out.score.num % 2 = 0
               /\ out.score.num >= 2 * LongestCommonSubstring(inp.a, inp.b)
               /\ out.score.num <= 2 * Min(Len(inp.a), Len(inp.b))
    /\ pc = "sim_self" /\ inp.a # <<>> => out.score.num = out.score.den

C6_Witness ==
    /\ pc = "sim_pair"
    /\ inp.a = <<"a", "b", "c">>
    /\ inp.b = <<"a", "b", "c", "a">>
    /\ out.score = [num |-> 6, den |-> 7]

----------------------------------------------------------------------------
(* Specification Spec: main() of a merger script, from the two source
   databases to the destination database *)

\* what merged_ncl_books.db holds before the run: nothing, or the relations
\* of an earlier run beside a relation of another program
FreshDest ==
    [merged_books |-> NoTable, unmatched_detailed |-> NoTable,
     unmatched_summary |-> NoTable, other |-> NoTable]

StaleDest ==
    LET d == CHOOSE r \in DetailedPool : r.title = <<"e", "f", "g">>
        t == CHOOSE r \in SummaryPool : r.title = <<"e", "f", "g">>
    IN [merged_books |->
            [exists |-> TRUE, rows |-> <<ExactRow(<<1, 1>>, "A")>>],
        unmatched_detailed |->
            to_sql_replace(NoTable,
                load_and_prepare_dataset1([exists |-> TRUE, rows |-> <<d>>], "A")),
        unmatched_summary |->
            to_sql_replace(NoTable,
                load_and_prepare_dataset2([exists |-> TRUE, rows |-> <<t>>], "A")),
        other |-> [exists |-> TRUE, rows |-> <<"kept">>]]

Init ==
    /\ pc = "start"
    /\ inp = <<>> /\ out = <<>>
    /\ policy \in {"A", "B", "C"}
    /\ src1 \in Tables(DetailedPool) \cup {NoFile}
    /\ src2 \in Tables(SummaryPool) \cup {NoFile}
    /\ df1 = <<>> /\ df2 = <<>>
    /\ merged = <<>> /\ unmatched1 = <<>> /\ unmatched2 = <<>>
    /\ dest \in {FreshDest, StaleDest}

\* Policies A and B build composite_key with df.apply(..., axis=1); on a
\* frame without rows apply returns a frame, and assigning it to the one
\* column is refused by some pandas versions (ValueError) and accepted by
\* others: both outcomes are kept
may_fail_on_no_rows(db, pol) == db.exists /\ db.rows = <<>> /\ pol \in {"A", "B"}

\* main, line 303
LoadDataset1 ==
    /\ pc = "start"
    /\ \/ /\ df1' = load_and_prepare_dataset1(src1, policy)
          /\ pc' = "loaded1"
       \/ /\ may_fail_on_no_rows(src1, policy)
          /\ pc' = "load_failed"
          /\ UNCHANGED df1
    /\ UNCHANGED <<fnVars, policy, src1, src2, df2, merged, unmatched1, unmatched2, dest>>

\* main, line 304
LoadDataset2 ==
    /\ pc = "loaded1"
    /\ \/ /\ df2' = load_and_prepare_dataset2(src2, policy)
          /\ pc' = "loaded2"
       \/ /\ may_fail_on_no_rows(src2, policy)
          /\ pc' = "load_failed"
          /\ UNCHANGED df2
    /\ UNCHANGED <<fnVars, policy, src1, src2, df1, merged, unmatched1, unmatched2, dest>>

\* variant of the test of main: both datasets empty
both_empty(d1, d2) == d1 = EmptyFrame /\ d2 = EmptyFrame

\* main, line 306: df1.empty or df2.empty
either_empty(d1, d2) == d1 = EmptyFrame \/ d2 = EmptyFrame

\* main, lines 306-308: the message is printed and main returns
ReportEmpty ==
    /\ pc = "loaded2"
    /\ either_empty(df1, df2)
    /\ pc' = "returned_empty"
    /\ UNCHANGED <<fnVars, mainVars>>

\* the triple returned by merge_datasets is bound, or its exception ends main
MergeReturns(r) ==
    IF r.raised
    THEN /\ pc' = "merge_failed"
         /\ UNCHANGED <<merged, unmatched1, unmatched2>>
    ELSE /\ pc' = "merged"
         /\ merged' = r.merged
         /\ unmatched1' = r.unmatched1
         /\ unmatched2' = r.unmatched2

\* main, line 311
MergeDatasets ==
    /\ pc = "loaded2"
    /\ ~either_empty(df1, df2)
    /\ MergeReturns(merge_datasets(df1, df2, policy))
    /\ UNCHANGED <<fnVars, policy, src1, src2, df1, df2, dest>>

\* main, lines 314-323
SaveResults ==
    /\ pc = "merged"
    /\ dest' = save_results(dest, merged, unmatched1, unmatched2)
    /\ pc' = "saved"
    /\ UNCHANGED <<fnVars, policy, src1, src2, df1, df2, merged, unmatched1, unmatched2>>

Next == LoadDataset1 \/ LoadDataset2 \/ ReportEmpty \/ MergeDatasets \/ SaveResults

Spec == Init /\ [][Next]_vars

\* the index labels on one side of the merged rows, and of a frame
MatchedD == {merged[k].d : k \in 1..Len(merged)}
MatchedS == {merged[k].s : k \in 1..Len(merged)}
Labels(frame) == {frame[i].idx : i \in 1..Len(frame)}

\* C1: the detailed records on the rows of matched and the records of
\* unmatched-detailed are disjoint and together are all of D; the same for
\* S and unmatched-summary (Policies A and B).
C1_Partition ==
    pc = "merged" =>
        /\ MatchedD \cap Labels(unmatched1) = {}
        /\ MatchedD \cup Labels(unmatched1) = Labels(df1)
        /\ MatchedS \cap Labels(unmatched2) = {}
        /\ MatchedS \cup Labels(unmatched2) = Labels(df2)

\* C2: every record of D and every record of S is on at most one row of
\* matched (Policies A and B).
C2_MatchedAtMostOnce ==
    pc = "merged" =>
        \A j, k \in 1..Len(merged) :
            j # k => merged[j].d # merged[k].d /\ merged[j].s # merged[k].s

FuzzyRowsOf(m) == {k \in 1..Len(m) : m[k].match_type = "fuzzy"}

\* C3 as stated: the similarity_score of every fuzzy row is at least every
\* threshold of its policy: 0.85 under Policy A; 0.85 and 0.80 under Policy B.
C3_ScoreMeetsEveryThreshold ==
    pc = "merged" =>
        \A k \in FuzzyRowsOf(merged) :
            /\ FracGE(merged[k].similarity_score, Frac(85, 100))
            /\ policy = "B" => FracGE(merged[k].similarity_score, Frac(80, 100))

\* C3 as amended: under Policy A the similarity_score of a fuzzy row is
\* above 0.85; under Policy B its title_similarity is at least 0.85, its
\* author_similarity at least 0.80, and its similarity_score, the combined
\* score 0.7*title + 0.3*author, is at least 0.80 (it can be below 0.85).
C3_ScoreMeetsItsThreshold ==
    pc = "merged" =>
        \A k \in FuzzyRowsOf(merged) :
            /\ policy = "A" => FracGT(merged[k].similarity_score, Frac(85, 100))
            /\ policy = "B" =>
                  /\ FracGE(merged[k].title_similarity, Frac(85, 100))
                  /\ FracGE(merged[k].author_similarity, Frac(80, 100))
                  /\ 10 * merged[k].similarity_score.num
                        * merged[k].title_similarity.den * merged[k].author_similarity.den
                     = merged[k].similarity_score.den
                        * (7 * merged[k].title_similarity.num * merged[k].author_similarity.den
                           + 3 * merged[k].author_similarity.num * merged[k].title_similarity.den)
                  /\ FracGE(merged[k].similarity_score, Frac(80, 100))

\* a Policy B fuzzy row whose combined score is below the title threshold
C3_Witness ==
    /\ pc = "merged"
    /\ policy = "B"
    /\ \E k \in FuzzyRowsOf(merged) :
          /\ merged[k].title_similarity = Frac(6, 7)
          /\ merged[k].author_similarity = Frac(4, 5)
          /\ ~FracGE(merged[k].similarity_score, Frac(85, 100))

InYearRange(y) == IsNa(y) \/ (1800 <= y.v /\ y.v <= 2030)

\* C7: after the datasets are prepared every extracted_year of a detailed
\* record and every year_int of a summary record is absent or lies in
\* 1800..2030.
C7_YearsInRange ==
    pc \in {"loaded2", "merged", "saved"} =>
        /\ \A i \in 1..Len(df1) : InYearRange(df1[i].extracted_year)
        /\ \A i \in 1..Len(df2) : InYearRange(df2[i].year_int)

\* the rows of a stored relation are those of the frame, in its order
HoldsExactly(table, frame) ==
    /\ table.exists
    /\ Len(table.rows) = Len(frame)
    /\ \A i \in 1..Len(frame) :
          /\ table.rows[i].row = frame[i].row
          /\ table.rows[i].composite_key = frame[i].composite_key

\* C9: a call of save_results leaves in merged_books, unmatched_detailed and
\* unmatched_summary exactly the rows it was passed, whatever an earlier
\* call had stored there, and leaves every other relation of the
\* destination as it was.
C9_SaveReplaces ==
    [][ (pc = "merged" /\ pc' = "saved") =>
            /\ dest'.merged_books.exists
            /\ dest'.merged_books.rows = merged
            /\ HoldsExactly(dest'.unmatched_detailed, unmatched1)
            /\ HoldsExactly(dest'.unmatched_summary, unmatched2)
            /\ dest'.other = dest.other ]_vars

\* saved over the relations of an earlier run: the earlier unmatched
\* detailed row is gone, the matched rows are the new ones, the relation
\* of another program is still there
C9_Witness ==
    /\ pc = "saved"
    /\ dest.other = StaleDest.other
    /\ unmatched1 = <<>>
    /\ dest.unmatched_detailed = [exists |-> TRUE, rows |-> <<>>]
    /\ Len(merged) = 2
    /\ dest.merged_books.rows = merged
    /\ dest.unmatched_summary.rows # StaleDest.unmatched_summary.rows

\* C10: when a loaded dataset is empty, main's next and last step is the
\* report of the empty input, with nothing merged and the destination as it
\* was; merge_datasets and save_results run only with both datasets
\* non-empty.
C10_EmptyInputStopsMain ==
    /\ [](pc \in {"merged", "merge_failed", "saved"} => df1 # <<>> /\ df2 # <<>>)
    /\ [][ (pc = "loaded2" /\ (df1 = <<>> \/ df2 = <<>>)) =>
              /\ pc' = "returned_empty"
              /\ dest' = dest
              /\ <<merged, unmatched1, unmatched2>>' = <<merged, unmatched1, unmatched2>> ]_vars
    /\ [][ pc # "returned_empty" ]_vars

\* the detailed database file is missing, the summary dataset has rows, the
\* report was made and the relations of an earlier run are untouched
C10_Witness ==
    /\ pc = "returned_empty"
    /\ src1 = NoFile
    /\ df1 = <<>>
    /\ df2 # <<>>
    /\ merged = <<>>
    /\ dest = StaleDest

ExactRowsOf(m) == {k \in 1..Len(m) : m[k].match_type = "exact"}

\* the pairs of positions of D and S with equal composite keys
EqualKeyPairs ==
    {p \in (1..Len(df1)) \X (1..Len(df2)) :
        df1[p[1]].composite_key = df2[p[2]].composite_key}

\* C11: under Policies A and B matched holds exactly one exact row for every
\* pair (d, s) of D x S with equal composite keys, the full cross product
\* when a key repeats; every exact row has similarity_score 1 (and
\* title_similarity = author_similarity = 1 under Policy B); a record on an
\* exact row is in neither unmatched collection.
C11_ExactPhaseCrossProduct ==
    pc = "merged" =>
        /\ {<<merged[k].d, merged[k].s>> : k \in ExactRowsOf(merged)} = EqualKeyPairs
        /\ Cardinality(ExactRowsOf(merged)) = Cardinality(EqualKeyPairs)
        /\ \A k \in ExactRowsOf(merged) :
              /\ merged[k].similarity_score = Frac(1, 1)
              /\ policy = "B" => /\ merged[k].title_similarity = Frac(1, 1)
                                 /\ merged[k].author_similarity = Frac(1, 1)
              /\ merged[k].d \notin Labels(unmatched1)
              /\ merged[k].s \notin Labels(unmatched2)

\* two D records and one S record share one composite key: two exact rows
C11_Witness ==
    /\ pc = "merged"
    /\ Len(df1) = 2 /\ Len(df2) = 1
    /\ df1[1].composite_key = df2[1].composite_key
    /\ df1[2].composite_key = df2[1].composite_key
    /\ Cardinality(ExactRowsOf(merged)) = 2
    /\ unmatched2 = <<>>

\* both years are known and are the same number
SameKnownYear(y1, y2) == ~IsNa(y1) /\ ~IsNa(y2) /\ y1.v = y2.v

\* a score of exactly 1
IsOne(f) == f.num = f.den /\ f.den > 0

\* the remaining summary rows with the normalized title and the year of d
SameTitleAndYear(d) ==
    {j \in 1..Len(unmatched2) :
        /\ normalize_text(unmatched2[j].title) = normalize_text(d.row.title)
        /\ normalize_text(d.row.title) # <<>>
        /\ SameKnownYear(d.extracted_year, unmatched2[j].year_int)}

\* C12: under Policy A a D record left after the exact phase, for which a
\* remaining S record has the same non-empty normalized title and the same
\* year, is on a fuzzy row with similarity_score 1.
C12_SameTitleSameYearIsFuzzyOne ==
    (pc = "merged" /\ policy = "A") =>
        \A i \in 1..Len(unmatched1) :
            SameTitleAndYear(unmatched1[i]) # {} =>
                \E k \in FuzzyRowsOf(merged) :
                    /\ merged[k].d = unmatched1[i].idx
                    /\ IsOne(merged[k].similarity_score)

\* a D record whose year column is float (another row has no year) and an
\* S record with the same normalized title, an author and the same year
C12_Witness ==
    /\ pc = "merged"
    /\ policy = "A"
    /\ \E i \in 1..Len(unmatched1) :
          /\ unmatched1[i].extracted_year = PyFloat(1999)
          /\ SameTitleAndYear(unmatched1[i]) # {}
          /\ \E k \in FuzzyRowsOf(merged) :
                /\ merged[k].d = unmatched1[i].idx
                /\ IsOne(merged[k].similarity_score)

\* C13: in the fuzzy phase of Policies A and B a pair (d, s) of remaining
\* records is skipped by the year gate exactly when both years are known
\* and differ; a pair with a missing year is never skipped.
C13_YearGateOnlyForKnownYears ==
    (pc = "merged" /\ policy \in {"A", "B"}) =>
        \A i \in 1..Len(unmatched1), j \in 1..Len(unmatched2) :
            year_gate_skips(unmatched1[i].extracted_year, unmatched2[j].year_int)
            <=> /\ ~IsNa(unmatched1[i].extracted_year)
                /\ ~IsNa(unmatched2[j].year_int)
                /\ unmatched1[i].extracted_year.v # unmatched2[j].year_int.v

\* the composite keys on the exact rows of matched
KeysOnExactRows == {df1[merged[k].d].composite_key : k \in ExactRowsOf(merged)}

\* C14: under Policies A and B a record whose composite key is on an exact
\* row is on no fuzzy row, on either side, and the fuzzy phase runs over
\* exactly the records whose key is on no exact row.
C14_ExactKeysLeaveFuzzyPhase ==
    (pc = "merged" /\ policy \in {"A", "B"}) =>
        /\ \A k \in FuzzyRowsOf(merged) :
              /\ df1[merged[k].d].composite_key \notin KeysOnExactRows
              /\ df2[merged[k].s].composite_key \notin KeysOnExactRows
        /\ Labels(unmatched1) =
              {i \in 1..Len(df1) : df1[i].composite_key \notin KeysOnExactRows}
        /\ Labels(unmatched2) =
              {j \in 1..Len(df2) : df2[j].composite_key \notin KeysOnExactRows}

\* an exact row and a fuzzy row in one result, with one record of each side
\* left for the fuzzy phase
C14_Witness ==
    /\ pc = "merged"
    /\ ExactRowsOf(merged) # {}
    /\ FuzzyRowsOf(merged) # {}
    /\ Len(unmatched1) = 1
    /\ Len(unmatched2) = 1

\* the years are compatible: not both known and different
YearCompatible(y1, y2) == ~(~IsNa(y1) /\ ~IsNa(y2) /\ y1.v # y2.v)

\* the normalized-title ratio of a detailed row and a summary row (Policy A)
TitleRatio(d, s2) ==
    similarity_score(normalize_text(d.row.title), normalize_text(s2.title))

\* the remaining, year-compatible summary rows scoring above 0.85 with d
Eligible(d) ==
    {j \in 1..Len(unmatched2) :
        /\ YearCompatible(d.extracted_year, unmatched2[j].year_int)
        /\ FracGT(TitleRatio(d, unmatched2[j]), Frac(85, 100))}

\* the first of the eligible rows with the maximum ratio
FirstBest(d) ==
    CHOOSE j \in Eligible(d) :
        \A i \in Eligible(d) :
            \/ FracGT(TitleRatio(d, unmatched2[j]), TitleRatio(d, unmatched2[i]))
            \/ /\ FracGE(TitleRatio(d, unmatched2[j]), TitleRatio(d, unmatched2[i]))
               /\ j <= i

RowsOfD(d) == {k \in FuzzyRowsOf(merged) : merged[k].d = d.idx}

\* C15: under Policy A a D record left after the exact phase has a fuzzy row
\* exactly when some remaining year-compatible S record scores above 0.85
\* with it; the partner is then the first, in the order of S, of those with
\* the maximum ratio, and that ratio is the similarity_score of the row.
C15_BestMatchRule ==
    (pc = "merged" /\ policy = "A") =>
        \A i \in 1..Len(unmatched1) :
            IF Eligible(unmatched1[i]) = {}
            THEN RowsOfD(unmatched1[i]) = {}
            ELSE /\ Cardinality(RowsOfD(unmatched1[i])) = 1
                 /\ \A k \in RowsOfD(unmatched1[i]) :
                       /\ merged[k].s = unmatched2[FirstBest(unmatched1[i])].idx
                       /\ merged[k].similarity_score =
                             TitleRatio(unmatched1[i], unmatched2[FirstBest(unmatched1[i])])

\* the remaining summary rows the gate lets through that score above 0.85 with d
PassingFor(d) ==
    {j \in 1..Len(unmatched2) :
        /\ ~year_gate_skips(d.extracted_year, unmatched2[j].year_int)
        /\ FracGT(TitleRatio(d, unmatched2[j]), Frac(85, 100))}

\* C16: in the fuzzy phase of Policy A a remaining D record is on at most
\* one fuzzy row, and every remaining D record is matched against the whole
\* of the remaining S records, those already chosen for an earlier D record
\* included: it has a fuzzy row whenever one of them passes for it.
C16_SummaryPoolUnchanged ==
    (pc = "merged" /\ policy = "A") =>
        /\ \A k \in FuzzyRowsOf(merged) :
              /\ merged[k].d \in Labels(unmatched1)
              /\ merged[k].s \in Labels(unmatched2)
        /\ \A i \in 1..Len(unmatched1) :
              /\ Cardinality(RowsOfD(unmatched1[i])) <= 1
              /\ PassingFor(unmatched1[i]) # {} => RowsOfD(unmatched1[i]) # {}

\* one S record is the partner on the fuzzy rows of two D records
C16_Witness ==
    /\ pc = "merged"
    /\ policy = "A"
    /\ Len(unmatched2) = 1
    /\ \E j, k \in FuzzyRowsOf(merged) :
          /\ merged[j].d # merged[k].d
          /\ merged[j].s = merged[k].s

\* the Policy B scores of a detailed row and a summary row
TitleRatioB(d, s2) ==
    similarity_score(normalize_text(d.title_cleaned), normalize_text(s2.title))

AuthorRatioB(d, s2) ==
    similarity_score(normalize_text(d.author_cleaned), normalize_text(s2.author))

\* 0.7 * t + 0.3 * a
Weighted(t, a) == Frac(7 * t.num * a.den + 3 * a.num * t.den, 10 * t.den * a.den)

SameValue(f, g) == FracGE(f, g) /\ FracGE(g, f)

MeetsBoth(d, s2) ==
    /\ FracGE(TitleRatioB(d, s2), Frac(85, 100))
    /\ FracGE(AuthorRatioB(d, s2), Frac(80, 100))

\* C17: under Policy B every fuzzy row has title_similarity >= 0.85 and
\* author_similarity >= 0.80, a similarity_score of 0.7 * title_similarity +
\* 0.3 * author_similarity, the two similarities are those of the S record
\* on the row, and no remaining year-compatible S record that meets both
\* thresholds has a higher combined score.
C17_PolicyBRows ==
    (pc = "merged" /\ policy = "B") =>
        \A k \in FuzzyRowsOf(merged) :
            /\ FracGE(merged[k].title_similarity, Frac(85, 100))
            /\ FracGE(merged[k].author_similarity, Frac(80, 100))
            /\ SameValue(merged[k].similarity_score,
                         Weighted(merged[k].title_similarity, merged[k].author_similarity))
            /\ merged[k].title_similarity = TitleRatioB(df1[merged[k].d], df2[merged[k].s])
            /\ merged[k].author_similarity = AuthorRatioB(df1[merged[k].d], df2[merged[k].s])
            /\ \A j \in 1..Len(unmatched2) :
                  ( /\ YearCompatible(df1[merged[k].d].extracted_year, unmatched2[j].year_int)
                    /\ MeetsBoth(df1[merged[k].d], unmatched2[j]) )
                  => FracGE(merged[k].similarity_score,
                            Weighted(TitleRatioB(df1[merged[k].d], unmatched2[j]),
                                     AuthorRatioB(df1[merged[k].d], unmatched2[j])))

\* the pairs of positions joined by the merge of Policy C (lines 58-62)
JoinedPairs ==
    {<<field_pairs(df1, df2)[k][1], field_pairs(df1, df2)[k][2]>> :
        k \in 1..Len(field_pairs(df1, df2))}

\* C18: under Policy C a D record and an S record are joined exactly when
\* normalize(title_cleaned) = normalize(title) and normalize(author_cleaned)
\* = normalize(author), so that differences of case, whitespace, punctuation
\* or "missing" against empty do not prevent a match.
C18_PolicyCJoinsOnNormalizedFields ==
    (policy = "C" /\ pc \in {"merged", "merge_failed"}) =>
        \A i \in 1..Len(df1), j \in 1..Len(df2) :
            <<i, j>> \in JoinedPairs
            <=> /\ normalize_text(df1[i].title_cleaned) = normalize_text(df2[j].title)
                /\ normalize_text(df1[i].author_cleaned) = normalize_text(df2[j].author)

\* C19: under Policy C merge_datasets returns for non-empty inputs: matched
\* holds one exact row with similarity_score 1 for every joined pair,
\* unmatched-detailed the D rows that join no S row and unmatched-summary
\* the S rows that join no D row.
C19_PolicyCReturns ==
    (policy = "C" /\ pc \in {"merged", "merge_failed"}) =>
        /\ pc = "merged"
        /\ {<<merged[k].d, merged[k].s>> : k \in 1..Len(merged)} = JoinedPairs
        /\ Len(merged) = Cardinality(JoinedPairs)
        /\ \A k \in 1..Len(merged) :
              /\ merged[k].match_type = "exact"
              /\ merged[k].similarity_score = Frac(1, 1)
        /\ Labels(unmatched1) =
              {i \in 1..Len(df1) : \A j \in 1..Len(df2) : <<i, j>> \notin JoinedPairs}
        /\ Labels(unmatched2) =
              {j \in 1..Len(df2) : \A i \in 1..Len(df1) : <<i, j>> \notin JoinedPairs}

----------------------------------------------------------------------------
(* Specification SpecYear: extract_year_from_text applied to one text *)

YearAlphabet == {"1", "9", "a"}

\* texts of the imprint and publication fields around the cases of the
\* range test and of runs longer than four digits
YearSpecialTexts ==
    { NULL, Missing,
      <<"ZH", "ZH", "ZH", "1", "9", "9", "9", "ZH">>,
      <<"n", "o", " ", "y", "e", "a", "r", " ", "h", "e", "r", "e">>,
      <<"y", "e", "a", "r", " ", "1", "7", "5", "0">>,
      <<"1", "7", "9", "9">>, <<"1", "8", "0", "0">>,
      <<"2", "0", "3", "0">>, <<"2", "0", "3", "1">>,
      <<"1", "2", "3", "4", "5", " ", "1", "9", "9", "9">>,
      <<"1", "7", "5", "0", " ", "1", "9", "9", "9">>,
      <<"2", "0", "0", "1", "2", "3", "4", "5", "6", "7">> }

YearTexts == SeqsUpTo(YearAlphabet, MaxYearLen) \cup YearSpecialTexts

InitYear ==
    /\ MainIdle
    /\ pc = "year_in"
    /\ inp \in {[text |-> t] : t \in YearTexts}
    /\ out = [year |-> PyNone]

ExtractYear ==
    /\ pc = "year_in"
    /\ out' = [year |-> extract_year_from_text(inp.text)]
    /\ pc' = "year_out"
    /\ UNCHANGED <<inp, mainVars>>

NextYear == ExtractYear

SpecYear == InitYear /\ [][NextYear]_vars

\* the starts of the runs of exactly four decimal digits of a text
RunsOfExactlyFour(text) ==
    {i \in 1..(Len(text) - 3) :
        /\ \A j \in i..(i + 3) : text[j] \in Digits
        /\ i > 1 => text[i - 1] \notin Digits
        /\ i + 4 <= Len(text) => text[i + 4] \notin Digits}

\* the value of the first run of exactly four digits
FirstRunValue(text) ==
    IntOf(SubSeq(text,
                 CHOOSE i \in RunsOfExactlyFour(text) :
                     \A j \in RunsOfExactlyFour(text) : i <= j,
                 (CHOOSE i \in RunsOfExactlyFour(text) :
                     \A j \in RunsOfExactlyFour(text) : i <= j) + 3))

\* C20: extract_year_from_text returns the value y of the first run of
\* exactly four decimal digits of the text if 1800 <= y <= 2030, and null
\* otherwise: when y is out of range, when the text has no run of exactly
\* four digits (digits in longer runs only, too) or is null or "missing".
C20_FirstRunOfExactlyFourDigits ==
    pc = "year_out" =>
        out.year =
            IF inp.text = NULL \/ inp.text = Missing THEN PyNone
            ELSE IF RunsOfExactlyFour(inp.text) = {} THEN PyNone
            ELSE IF 1800 <= FirstRunValue(inp.text) /\ FirstRunValue(inp.text) <= 2030
            THEN PyInt(FirstRunValue(inp.text))
            ELSE PyNone

----------------------------------------------------------------------------
(* Specification SpecAuthor: extract_author_from_text of DataMerger.py and
   of DataMerger2.py applied to one author text *)

AuthorAlphabet ==
    {"w", " ", ",", ";", "FW_SEMI",
     "zhu4_U8457", "bian1_U7DE8", "zhu3_U4E3B", "zuo4_U4F5C", "zhe3_U8005"}

AuthorSpecialTexts ==
    { NULL, Missing,
      <<"w", "w", "w", "zhu3_U4E3B", "bian1_U7DE8">>,
      <<"w", "w", "w", "zuo4_U4F5C", "zhe3_U8005">>,
      <<"w", "zhuan4_U64B0">>,
      <<"w", "xie3_U5199">>,
      <<"w", "bian1_U7F16">> }

AuthorTexts == SeqsUpTo(AuthorAlphabet, MaxAuthorLen) \cup AuthorSpecialTexts

InitAuthor ==
    /\ MainIdle
    /\ pc = "author_in"
    /\ inp \in {[text |-> t] : t \in AuthorTexts}
    /\ out = [author |-> <<>>]

\* DataMerger.py
ExtractAuthor ==
    /\ pc = "author_in"
    /\ out' = [author |-> extract_author_from_text(inp.text)]
    /\ pc' = "author_out"
    /\ UNCHANGED <<inp, mainVars>>

\* DataMerger2.py
ExtractAuthor2 ==
    /\ pc = "author_in"
    /\ out' = [author |-> extract_author_from_text2(inp.text)]
    /\ pc' = "author_out2"
    /\ UNCHANGED <<inp, mainVars>>

NextAuthor == ExtractAuthor \/ ExtractAuthor2

SpecAuthor == InitAuthor /\ [][NextAuthor]_vars

\* the authorship-role markers, as texts
RoleMarkers ==
    { <<"zhu4_U8457">>, <<"bian1_U7DE8">>, <<"zhu3_U4E3B", "bian1_U7DE8">>,
      <<"zhuan4_U64B0">>, <<"xie3_U5199">>, <<"zuo4_U4F5C", "zhe3_U8005">> }

EndsWith(text, m) ==
    Len(text) >= Len(m) /\ SubSeq(text, Len(text) - Len(m) + 1, Len(text)) = m

\* the text without its trailing marker, the longer one when two of them end it
WithoutTrailingMarker(text) ==
    IF \E m \in RoleMarkers : EndsWith(text, m)
    THEN SubSeq(text, 1,
                Len(text) - Len(CHOOSE m \in RoleMarkers :
                                   /\ EndsWith(text, m)
                                   /\ \A m2 \in RoleMarkers :
                                         EndsWith(text, m2) => Len(m2) <= Len(m)))
    ELSE text

AuthorDelimiters == {",", "FW_SEMI", ";"}

\* the part of a text before its earliest delimiter
BeforeEarliestDelimiter(text) ==
    IF \E i \in 1..Len(text) : text[i] \in AuthorDelimiters
    THEN SubSeq(text, 1,
                (CHOOSE i \in 1..Len(text) :
                    /\ text[i] \in AuthorDelimiters
                    /\ \A j \in 1..(i - 1) : text[j] \notin AuthorDelimiters) - 1)
    ELSE text

\* C21: in both merger modules extract_author_from_text removes the whole
\* trailing marker of a text that ends with one of the markers, and no
\* character of a text that ends with none; the first author of what is
\* left is the result.
C21_WholeTrailingMarkerRemoved ==
    (pc \in {"author_out", "author_out2"} /\ inp.text # NULL /\ inp.text # Missing) =>
        out.author = Strip(BeforeEarliestDelimiter(WithoutTrailingMarker(inp.text)))

\* C22: extract_author_from_text returns the empty string for null and
\* "missing"; otherwise the result is the trimmed part, before the earliest
\* of the delimiters, of the text or of the text without its last
\* character (the stripped marker), and holds none of the delimiters.
C22_FirstAuthorBeforeEarliestDelimiter ==
    pc \in {"author_out", "author_out2"} =>
        IF inp.text = NULL \/ inp.text = Missing
        THEN out.author = <<>>
        ELSE /\ \/ out.author = Strip(BeforeEarliestDelimiter(inp.text))
                \/ /\ Len(inp.text) > 0
                   /\ out.author = Strip(BeforeEarliestDelimiter(
                                       SubSeq(inp.text, 1, Len(inp.text) - 1)))
             /\ \A i \in 1..Len(out.author) : out.author[i] \notin AuthorDelimiters

\* a text whose earliest delimiter is a semicolon, with a comma after it
C22_Witness ==
    /\ pc = "author_out"
    /\ inp.text = <<"w", ";", "w", ",">>
    /\ out.author = <<"w">>

----------------------------------------------------------------------------
(* Specification SpecSplit: the title and author split of
   process_book_details applied to the text of one title link *)

TitleAlphabet == {"a", "/", " ", "zhu4_U8457"}

TitleTexts ==
    SeqsUpTo(TitleAlphabet, MaxTitleLen)
        \cup { Missing,
               <<"ZH", "ZH", " ", "/", " ", "ZH", "zhu4_U8457">> }

InitSplit ==
    /\ MainIdle
    /\ pc = "split_in"
    /\ inp \in {[text |-> t] : t \in TitleTexts}
    /\ out = [title |-> Missing, title_cleaned |-> Missing, author_cleaned |-> Missing]

\* PublicationScraper14.py lines 473-484: title is the trimmed text of the link
SplitTitle ==
    /\ pc = "split_in"
    /\ out' = [title          |-> Strip(inp.text),
               title_cleaned  |-> split_title_author(Strip(inp.text)).title_cleaned,
               author_cleaned |-> split_title_author(Strip(inp.text)).author_cleaned]
    /\ pc' = "split_out"
    /\ UNCHANGED <<inp, mainVars>>

NextSplit == SplitTitle

SpecSplit == InitSplit /\ [][NextSplit]_vars

\* C23: the raw title is split on its first "/" only: title_cleaned is the
\* trimmed text before it and holds no "/", author_cleaned is the trimmed
\* text after it, further "/" and markers kept; without "/" the whole title
\* is title_cleaned and author_cleaned is "missing"; a title "missing"
\* leaves both "missing".
C23_SplitOnFirstSlash ==
    pc = "split_out" =>
        IF out.title = Missing
        THEN out.title_cleaned = Missing /\ out.author_cleaned = Missing
        ELSE IF \A i \in 1..Len(out.title) : out.title[i] # "/"
        THEN out.title_cleaned = out.title /\ out.author_cleaned = Missing
        ELSE /\ \A i \in 1..Len(out.title_cleaned) : out.title_cleaned[i] # "/"
             /\ \E i \in 1..Len(out.title) :
                   /\ out.title[i] = "/"
                   /\ \A j \in 1..(i - 1) : out.title[j] # "/"
                   /\ out.title_cleaned = Strip(SubSeq(out.title, 1, i - 1))
                   /\ out.author_cleaned = Strip(SubSeq(out.title, i + 1, Len(out.title)))

\* a title with two "/": the second one stays in author_cleaned, with the marker
C23_Witness ==
    /\ pc = "split_out"
    /\ out.title = <<"a", "/", "a", "/", "zhu4_U8457">>
    /\ out.title_cleaned = <<"a">>
    /\ out.author_cleaned = <<"a", "/", "zhu4_U8457">>

\* the cleaned author is empty, null or the sentinel
NoCleanedAuthor(d) == d.author_cleaned \in {<<>>, NULL, Missing}

\* C24: under Policy B a D record whose cleaned author is empty, null or
\* "missing" is on no fuzzy row, whatever its title similarity; it is
\* matched by exact rows only.
C24_NoAuthorNoFuzzyMatch ==
    (pc = "merged" /\ policy = "B") =>
        \A k \in FuzzyRowsOf(merged) : ~NoCleanedAuthor(df1[merged[k].d])

\* records without a cleaned author, "missing" and empty, face a remaining
\* S record with an equal normalized title and an equal year, and there
\* is no fuzzy row
C24_Witness ==
    /\ pc = "merged"
    /\ policy = "B"
    /\ Len(unmatched1) = 2
    /\ unmatched1[1].author_cleaned = Missing
    /\ unmatched1[2].author_cleaned = <<>>
    /\ \A i \in 1..2 : \E j \in 1..Len(unmatched2) :
          /\ IsOne(TitleRatioB(unmatched1[i], unmatched2[j]))
          /\ SameKnownYear(unmatched1[i].extracted_year, unmatched2[j].year_int)
    /\ FuzzyRowsOf(merged) = {}

----------------------------------------------------------------------------
(* Specification SpecDriver: safe_driver_operation of PublicationScraper14.py.
   inp holds max_retries, what the call of func does on each attempt and
   whether initialize_driver succeeds after it; drivers are numbered in the
   order of their creation, 0 being the one passed in. *)

DriverErrors == {"WebDriverException", "TimeoutException"}

FuncOutcomes == {"returns"} \cup DriverErrors \cup {"OtherException"}

InitDriver ==
    /\ MainIdle
    /\ pc = "sdo_loop"
    /\ inp \in [max_retries : 0..MaxRetriesArg,
                func        : [1..MaxRetriesArg -> FuncOutcomes],
                init_ok     : [1..MaxRetriesArg -> BOOLEAN]]
    /\ out = [attempt |-> 0, driver |-> 0, used |-> <<>>, quit |-> {},
              result |-> <<"none">>, raised |-> "none"]

\* variant of the test of line 121: a retry is prepared after every attempt
may_retry_always(attempt, max_retries) == TRUE

\* line 121
may_retry(attempt, max_retries) == attempt < max_retries - 1

\* lines 114-137: one iteration of the loop
SafeAttempt ==
    /\ pc = "sdo_loop"
    /\ out.attempt < inp.max_retries
    /\ \/ /\ inp.func[out.attempt + 1] = "returns"
          /\ out' = [out EXCEPT !.used   = Append(@, out.driver),
                                !.result = <<"result", out.attempt + 1>>]
          /\ pc' = "sdo_returned"
       \/ /\ inp.func[out.attempt + 1] \in DriverErrors
          /\ may_retry(out.attempt, inp.max_retries)
          /\ inp.init_ok[out.attempt + 1]
          /\ out' = [out EXCEPT !.used    = Append(@, out.driver),
                                !.quit    = @ \cup {out.driver},
                                !.driver  = @ + 1,
                                !.attempt = @ + 1]
          /\ pc' = "sdo_loop"
       \/ /\ inp.func[out.attempt + 1] \in DriverErrors
          /\ may_retry(out.attempt, inp.max_retries)
          /\ ~inp.init_ok[out.attempt + 1]
          /\ out' = [out EXCEPT !.used   = Append(@, out.driver),
                                !.quit   = @ \cup {out.driver},
                                !.raised = "initialize_driver error"]
          /\ pc' = "sdo_raised"
       \/ /\ inp.func[out.attempt + 1] \in DriverErrors
          /\ ~may_retry(out.attempt, inp.max_retries)
          /\ out' = [out EXCEPT !.used   = Append(@, out.driver),
                                !.raised = inp.func[out.attempt + 1]]
          /\ pc' = "sdo_raised"
       \/ /\ inp.func[out.attempt + 1] = "OtherException"
          /\ out' = [out EXCEPT !.used   = Append(@, out.driver),
                                !.raised = "OtherException"]
          /\ pc' = "sdo_raised"
    /\ UNCHANGED <<inp, mainVars>>

\* line 139: the loop ended without a return or a raise
LoopEnds ==
    /\ pc = "sdo_loop"
    /\ out.attempt >= inp.max_retries
    /\ pc' = "sdo_returned"
    /\ UNCHANGED <<inp, out, mainVars>>

NextDriver == SafeAttempt \/ LoopEnds

SpecDriver == InitDriver /\ [][NextDriver]_vars

\* the first attempt on which func does not raise a driver error, or
\* max_retries + 1
FirstNonDriverError ==
    IF \E i \in 1..inp.max_retries : inp.func[i] \notin DriverErrors
    THEN CHOOSE i \in 1..inp.max_retries :
            /\ inp.func[i] \notin DriverErrors
            /\ \A j \in 1..(i - 1) : inp.func[j] \in DriverErrors
    ELSE inp.max_retries + 1

\* the attempts after whose driver error a new driver cannot be created
FailedRestarts ==
    {i \in 1..(inp.max_retries - 1) : i < FirstNonDriverError /\ ~inp.init_ok[i]}

\* the call has ended after n calls of func, each with a driver of its own,
\* all but the last one quit
EndedAfter(n) ==
    /\ Len(out.used) = n
    /\ \A i \in 1..n : out.used[i] = i - 1
    /\ out.driver = n - 1
    /\ out.quit = 0..(n - 2)

\* how the call ends when every new driver can be created
EndsAsRetried ==
    IF FirstNonDriverError > inp.max_retries
    THEN /\ pc = "sdo_raised"
         /\ out.raised = inp.func[inp.max_retries]
         /\ EndedAfter(inp.max_retries)
    ELSE IF inp.func[FirstNonDriverError] = "returns"
    THEN /\ pc = "sdo_returned"
         /\ out.result = <<"result", FirstNonDriverError>>
         /\ EndedAfter(FirstNonDriverError)
    ELSE /\ pc = "sdo_raised"
         /\ out.raised = "OtherException"
         /\ EndedAfter(FirstNonDriverError)

\* C25 as stated: func is called at most max_retries times; the result and
\* the driver of the first call that does not raise are returned; a driver
\* error on an attempt that is not the last is followed by a quit, a new
\* driver and a retry with it; on the last attempt it is raised again; any
\* other exception is raised at once, the driver being kept.
C25_RetryAlwaysFollows ==
    (pc # "sdo_loop" /\ inp.max_retries > 0) =>
        /\ Len(out.used) <= inp.max_retries
        /\ EndsAsRetried

\* C25 as amended: the same, except that when initialize_driver fails after
\* a driver error its exception is raised, with the old driver quit and no
\* further call of func.
C25_RetryUnlessDriverCannotBeCreated ==
    (pc # "sdo_loop" /\ inp.max_retries > 0) =>
        /\ Len(out.used) <= inp.max_retries
        /\ IF FailedRestarts = {}
           THEN EndsAsRetried
           ELSE /\ pc = "sdo_raised"
                /\ out.raised = "initialize_driver error"
                /\ \E n \in FailedRestarts :
                      /\ \A i \in FailedRestarts : n <= i
                      /\ Len(out.used) = n
                      /\ \A i \in 1..n : out.used[i] = i - 1
                      /\ out.quit = 0..(n - 1)

\* two driver errors, each followed by a new driver, then a result on the
\* third and last attempt, returned with the third driver
C25_Witness ==
    /\ pc = "sdo_returned"
    /\ inp.max_retries = 3
    /\ inp.func[1] = "WebDriverException"
    /\ inp.func[2] = "TimeoutException"
    /\ out.used = <<0, 1, 2>>
    /\ out.quit = {0, 1}
    /\ out.driver = 2
    /\ out.result = <<"result", 3>>

----------------------------------------------------------------------------
\* PublicationScraper14.py: main_with_recovery, the exploration of periods
\* and subjects, the state file and the 'books' table.  Periods, subjects and
\* books are numbered from 0 as in the code.  The variable out holds the state
\* file, the table and the local variables of the two functions; inp holds
\* the number of books the site reports for each subject and whether the
\* database file can be written.

NumPeriods == 2

NumSubjects == 2

MaxBooks == 2

MaxSessions == 2

\* line 1016
main_max_retries == 3

PubBooks == (0..(NumPeriods - 1)) \X (0..(NumSubjects - 1)) \X (0..(MaxBooks - 1))

\* lines 56-73 and 75-82: no state file
NoState ==
    [saved |-> FALSE, period_index |-> 0, subject_index |-> 0,
     book_index |-> 0, total_books |-> 0]

\* lines 20-54
save_state(period_index, subject_index, book_index, total_books) ==
    [saved |-> TRUE, period_index |-> period_index,
     subject_index |-> subject_index, book_index |-> book_index,
     total_books |-> total_books]

\* the local variables of a session before main_with_recovery has set them
FreshLocals(session, state_file, db) ==
    [session |-> session, state_file |-> state_file, db |-> db,
     db_at_start |-> db, resume_state |-> NoState,
     retry_count |-> 0, attempts |-> 0, returned |-> "none", fatal |-> FALSE,
     start_period_index |-> 0, start_subject_index |-> 0,
     start_book_index |-> 0, period_idx |-> 0, subject_idx |-> 0,
     book_index |-> 0, tot_books |-> 0, got_books |-> FALSE]

InitPub ==
    /\ MainIdle
    /\ pc = "main_start"
    /\ inp \in [tot_books   : [0..(NumSubjects - 1) -> 0..MaxBooks],
                db_writable : BOOLEAN]
    /\ out = FreshLocals(1, NoState, [b \in PubBooks |-> 0])

\* lines 993-1017: load the state, ask whether to resume
MainLoadState ==
    /\ pc = "main_start"
    /\ \/ /\ out.state_file.saved
          /\ out' = [out EXCEPT !.resume_state = out.state_file]
       \/ /\ out.state_file.saved
          /\ out' = [out EXCEPT !.resume_state = NoState,
                                !.state_file = NoState]
       \/ /\ ~out.state_file.saved
          /\ out' = [out EXCEPT !.resume_state = NoState]
    /\ pc' = "main_loop"
    /\ UNCHANGED <<inp, mainVars>>

\* lines 1019-1022: the loop test and the call of the exploration
CallExplore ==
    /\ pc = "main_loop"
    /\ out.retry_count < main_max_retries
    /\ out' = [out EXCEPT !.attempts = @ + 1, !.returned = "none",
                          !.fatal = FALSE, !.got_books = FALSE]
    /\ pc' = "explore_init"
    /\ UNCHANGED <<inp, mainVars>>

\* lines 704-731 and, when initialize_driver raises, 891-905: period_idx is
\* not a local variable yet, so no state is saved, and [] is returned
ExploreStart ==
    /\ pc = "explore_init"
    /\ \/ /\ out' = [out EXCEPT
                       !.start_period_index  = out.resume_state.period_index,
                       !.start_subject_index = out.resume_state.subject_index,
                       !.start_book_index    = out.resume_state.book_index,
                       !.period_idx          = out.resume_state.period_index,
                       !.subject_idx         = out.resume_state.subject_index]
          /\ pc' = "subject"
       \/ /\ out' = [out EXCEPT !.returned = "empty", !.fatal = TRUE]
          /\ pc' = "main_returned"
    /\ UNCHANGED <<inp, mainVars>>

\* lines 733-741, 816-827, 844-861: the loops go on to the next subject, to
\* the next period, or end with clear_state and the return of all_book_info
AfterSubject(o, reset_book) ==
    IF o.subject_idx < NumSubjects - 1
    THEN [o EXCEPT !.subject_idx = @ + 1,
                   !.start_book_index = IF reset_book THEN 0 ELSE @]
    ELSE IF o.period_idx < NumPeriods - 1
         THEN [o EXCEPT !.period_idx = @ + 1, !.subject_idx = 0,
                        !.start_subject_index = 0,
                        !.start_book_index = IF reset_book THEN 0 ELSE @]
         ELSE [o EXCEPT !.start_subject_index = 0,
                        !.start_book_index = IF reset_book THEN 0 ELSE @,
                        !.state_file = NoState,
                        !.returned = IF o.got_books THEN "results" ELSE "empty"]

\* the position after AfterSubject
AfterSubjectPc(o) ==
    IF o.subject_idx < NumSubjects - 1 \/ o.period_idx < NumPeriods - 1
    THEN "subject" ELSE "main_returned"

\* line 790
current_book_start(o) ==
    IF o.period_idx = o.start_period_index /\ o.subject_idx = o.start_subject_index
    THEN o.start_book_index ELSE 0

\* lines 746-842 and 891-905: the search of one subject in one period
SearchSubject ==
    /\ pc = "subject"
    /\ \/ \* no search results, or results without books, or an error caught
          \* by the handler of line 810
          /\ out' = AfterSubject(out, TRUE)
          /\ pc' = AfterSubjectPc(out)
       \/ \* books found: the state is saved once, with the start index
          /\ inp.tot_books[out.subject_idx] > 0
          /\ out' = [out EXCEPT
                       !.tot_books = inp.tot_books[out.subject_idx],
                       !.book_index = current_book_start(out),
                       !.state_file = save_state(out.period_idx, out.subject_idx,
                                                 current_book_start(out),
                                                 inp.tot_books[out.subject_idx])]
          /\ pc' = "books"
       \/ \* critical error, the driver is created again: state saved with
          \* book 0, the loop goes on with the next subject
          /\ out' = AfterSubject(
                      [out EXCEPT !.state_file =
                          save_state(out.period_idx, out.subject_idx, 0, 0)],
                      FALSE)
          /\ pc' = AfterSubjectPc(out)
       \/ \* critical error and initialize_driver raises: fatal error, the
          \* state is saved with book 0 and [] is returned
          /\ out' = [out EXCEPT !.state_file =
                          save_state(out.period_idx, out.subject_idx, 0, 0),
                                !.returned = "empty", !.fatal = TRUE]
          /\ pc' = "main_returned"
    /\ UNCHANGED <<inp, mainVars>>

\* lines 141-170: one row appended to the table; an error of the database is
\* printed and the table is left as it was
save_book_to_database(db, book, db_writable) ==
    IF db_writable THEN [db EXCEPT ![book] = @ + 1] ELSE db

\* lines 634-659: the single book, or the move to the first book to process
EnterBooks ==
    /\ pc = "books"
    /\ \/ \* one book: it is processed when resume_from_book is 0
          /\ out.tot_books = 1
          /\ out' = AfterSubject(
                      IF out.book_index = 0
                      THEN [out EXCEPT !.got_books = TRUE,
                                       !.db = save_book_to_database(@,
                                                <<out.period_idx, out.subject_idx, 0>>,
                                                inp.db_writable)]
                      ELSE out,
                      TRUE)
          /\ pc' = AfterSubjectPc(out)
       \/ /\ out.tot_books # 1
          /\ out' = out
          /\ pc' = "book"
       \/ \* the first book cannot be opened, or an exception is caught by
          \* the handler of line 683
          /\ out' = AfterSubject(out, TRUE)
          /\ pc' = AfterSubjectPc(out)
    /\ UNCHANGED <<inp, mainVars>>

\* lines 662-679: one iteration of the loop over the books; save_state is not
\* called
ProcessBook ==
    /\ pc = "book"
    /\ \E moved \in BOOLEAN :
          LET o == [out EXCEPT !.got_books = TRUE,
                               !.db = save_book_to_database(@,
                                        <<out.period_idx, out.subject_idx,
                                          out.book_index>>,
                                        inp.db_writable)]
          IN  IF out.book_index < out.tot_books - 1 /\ moved
              THEN /\ out' = [o EXCEPT !.book_index = @ + 1]
                   /\ pc' = "book"
              ELSE /\ out' = AfterSubject(o, TRUE)
                   /\ pc' = AfterSubjectPc(out)
    /\ UNCHANGED <<inp, mainVars>>

\* lines 1024-1029: both branches leave the loop
ExploreReturned ==
    /\ pc = "main_returned"
    /\ pc' = "main_done"
    /\ UNCHANGED <<inp, out, mainVars>>

\* lines 906-913: a KeyboardInterrupt is no Exception: it passes the
\* handlers of lines 683, 810, 828, 891 and 1031, and the process ends with
\* the state file as it is
Interrupted ==
    /\ pc \in {"subject", "books", "book"}
    /\ pc' = "main_done"
    /\ out' = [out EXCEPT !.returned = "interrupted"]
    /\ UNCHANGED <<inp, mainVars>>

\* lines 1053-1054: the program is run again; the state file and the table
\* are what the last run left
RunAgain ==
    /\ pc = "main_done"
    /\ out.session < MaxSessions
    /\ out' = FreshLocals(out.session + 1, out.state_file, out.db)
    /\ pc' = "main_start"
    /\ UNCHANGED <<inp, mainVars>>

NextPub ==
    \/ MainLoadState
    \/ CallExplore
    \/ ExploreStart
    \/ SearchSubject
    \/ EnterBooks
    \/ ProcessBook
    \/ ExploreReturned
    \/ Interrupted
    \/ RunAgain

SpecPub == InitPub /\ [][NextPub]_vars

\* The handler of lines 1031-1050 (retry_count + 1, load_state, next
\* iteration) runs when the exploration raises an Exception.  The handler of
\* lines 891-905 turns every Exception of the exploration into the return
\* value [], so no step of the exploration enables it.

\* C26: when a run of the exploration ends in a fatal error,
\* main_with_recovery reloads the saved state and runs the exploration again,
\* up to max_retries = 3 attempts in total: main_with_recovery ends after a
\* fatal error only when that was the third attempt.
C26_FatalErrorIsRetried ==
    (pc = "main_done" /\ out.fatal) => out.attempts = main_max_retries

\* the books appended to the table in the current session
AppendedNow == {b \in PubBooks : out.db[b] > out.db_at_start[b]}

\* C27: while book k of a subject is processed the state file holds
\* book_index = k for that period and subject, and a resumed session appends
\* no book that was in the table before.
C27_StateFileHoldsCurrentBook ==
    /\ pc = "book" =>
          /\ out.state_file.saved
          /\ out.state_file.period_index = out.period_idx
          /\ out.state_file.subject_index = out.subject_idx
          /\ out.state_file.book_index = out.book_index
    /\ out.resume_state.saved =>
          \A b \in AppendedNow : out.db_at_start[b] = 0

----------------------------------------------------------------------------
\* TaiwanNCLScraper12.py: ScrapingState, attempt_recovery and
\* scrape_multiple_subjects_with_time_periods.  Periods, subjects and pages
\* are numbered from 0.  inp.pages is the number of result pages the site has
\* for each subject (0: the search finds nothing).  out.state is the
\* dictionary of the state manager; out.ever_completed and out.saved_pages
\* record what happened since the last reset_state: the subjects that
\* complete_subject marked, per period, and the pages passed to
\* save_page_data_to_db.

MaxPages == 2

\* line 521
scrape_max_retries == 3

NoPeriod == -1

\* lines 42-55
get_default_state ==
    [current_period_index |-> 0, current_period |-> NoPeriod,
     current_subject_index |-> 0, current_page |-> 0, total_pages |-> 0,
     completed_subjects |-> {}, completed_periods |-> {}, last_url |-> FALSE]

\* lines 57-64
update_period_progress(state, period_index) ==
    [state EXCEPT !.current_period_index = period_index,
                  !.current_period = period_index,
                  !.current_subject_index = 0,
                  !.current_page = 0,
                  !.completed_subjects = {}]

\* lines 66-73
update_subject_progress(state, subject_index, total_pages) ==
    [state EXCEPT !.current_subject_index = subject_index,
                  !.current_page = 0,
                  !.total_pages = total_pages]

\* lines 75-80: the url of the current page is never empty
update_page_progress(state, page) ==
    [state EXCEPT !.current_page = page, !.last_url = TRUE]

\* lines 82-86
complete_subject(state, subject) ==
    [state EXCEPT !.completed_subjects = @ \cup {subject}]

\* lines 88-92
complete_period(state, period) ==
    [state EXCEPT !.completed_periods = @ \cup {period}]

\* lines 447-509: the start positions attempt_recovery and the fallback of
\* lines 554-558 can give
recovery_starts(state, pages) ==
    IF state.current_period = NoPeriod
    THEN {<<0, 0, 0>>}
    ELSE \* the search cannot be made again, or an exception: start fresh
         {<<0, 0, 0>>}
         \cup \* the last url opens
         (IF state.last_url
          THEN {<<state.current_period_index, state.current_subject_index,
                  state.current_page>>}
          ELSE {})
         \cup \* the search is made again, the page is reached or not
         (IF pages[state.current_subject_index] > 0
          THEN {<<state.current_period_index, state.current_subject_index,
                  state.current_page>>,
                <<state.current_period_index, state.current_subject_index, 0>>}
          ELSE {})

InitScrape ==
    /\ MainIdle
    /\ pc = "loop"
    /\ inp \in [pages : [0..(NumSubjects - 1) -> 0..MaxPages]]
    /\ out = [state |-> get_default_state, retry_count |-> 0,
              start_period_idx |-> 0, start_subject_idx |-> 0, start_page |-> 0,
              period_idx |-> 0, subject_idx |-> 0, page |-> 0, num_pages |-> 0,
              ever_completed |-> {}, saved_pages |-> {}]

\* lines 704-713: the handler of an Exception of the attempt
attempt_failed(o) == [o EXCEPT !.retry_count = @ + 1]

\* lines 541-563: the start of an attempt
StartAttempt ==
    /\ pc = "loop"
    /\ out.retry_count < scrape_max_retries
    /\ \/ \* initialize_driver raises
          /\ out' = attempt_failed(out)
          /\ pc' = "loop"
       \/ /\ out.retry_count = 0
          /\ out' = [out EXCEPT
                       !.start_period_idx  = out.state.current_period_index,
                       !.start_subject_idx = out.state.current_subject_index,
                       !.start_page        = out.state.current_page,
                       !.period_idx        = out.state.current_period_index]
          /\ pc' = "period"
       \/ /\ out.retry_count > 0
          /\ \E r \in recovery_starts(out.state, inp.pages) :
                out' = [out EXCEPT !.start_period_idx  = r[1],
                                   !.start_subject_idx = r[2],
                                   !.start_page        = r[3],
                                   !.period_idx        = r[1]]
          /\ pc' = "period"
    /\ UNCHANGED <<inp, mainVars>>

\* lines 565-581 and 696-699: one step of the loop over the periods
PeriodStep ==
    /\ pc = "period"
    /\ IF out.period_idx >= NumPeriods
       THEN /\ out' = [out EXCEPT !.state = get_default_state,
                                  !.ever_completed = {},
                                  !.saved_pages = {}]
            /\ pc' = "done"
       ELSE IF out.period_idx \in out.state.completed_periods
            THEN /\ out' = [out EXCEPT !.period_idx = @ + 1]
                 /\ pc' = "period"
            ELSE /\ out' = [out EXCEPT
                              !.state = update_period_progress(@, out.period_idx),
                              !.subject_idx =
                                  IF out.period_idx = out.start_period_idx
                                  THEN out.start_subject_idx ELSE 0]
                 /\ pc' = "subject"
    /\ UNCHANGED <<inp, mainVars>>

\* lines 606-607 and 677-678: the subject is marked completed and the loop
\* goes to the next subject
subject_completed(o, reset_page) ==
    [o EXCEPT !.state = complete_subject(@, o.subject_idx),
              !.ever_completed = @ \cup {<<o.period_idx, o.subject_idx>>},
              !.start_page = IF reset_page THEN 0 ELSE @,
              !.subject_idx = @ + 1]

\* lines 593-595: the search is not made again after a recovery
continues_recovered(o) ==
    /\ o.retry_count > 0
    /\ o.period_idx = o.start_period_idx
    /\ o.subject_idx = o.start_subject_idx
    /\ o.start_page > 0

\* lines 583-638 and 684-694: one step of the loop over the subjects, up to
\* the loop over the pages
SubjectStep ==
    /\ pc = "subject"
    /\ \/ \* the loop ends and the period is marked, or the subject is in
          \* completed_subjects and is skipped
          /\ out.subject_idx >= NumSubjects
                \/ out.subject_idx \in out.state.completed_subjects
          /\ out' = IF out.subject_idx >= NumSubjects
                    THEN [out EXCEPT !.state = complete_period(@, out.period_idx),
                                     !.start_subject_idx = 0,
                                     !.period_idx = @ + 1]
                    ELSE [out EXCEPT !.subject_idx = @ + 1]
          /\ pc' = IF out.subject_idx >= NumSubjects THEN "period" ELSE "subject"
       \/ \* navigate_to_advanced_search raises, or the total cannot be read
          /\ out.subject_idx < NumSubjects
          /\ out.subject_idx \notin out.state.completed_subjects
          /\ out' = attempt_failed(out)
          /\ pc' = "loop"
       \/ \* refine_search returns False: nothing found, or an error in it
          /\ out.subject_idx < NumSubjects
          /\ out.subject_idx \notin out.state.completed_subjects
          /\ ~continues_recovered(out)
          /\ out' = subject_completed(out, FALSE)
          /\ pc' = "subject"
       \/ \* results: the pages are counted and the state updated
          /\ out.subject_idx < NumSubjects
          /\ out.subject_idx \notin out.state.completed_subjects
          /\ inp.pages[out.subject_idx] > 0
          /\ out' = [out EXCEPT
                       !.start_page = IF continues_recovered(out) THEN @ ELSE 0,
                       !.page       = IF continues_recovered(out) THEN out.start_page ELSE 0,
                       !.num_pages  = inp.pages[out.subject_idx],
                       !.state      = update_subject_progress(@, out.subject_idx,
                                         inp.pages[out.subject_idx])]
          /\ pc' = "page"
    /\ UNCHANGED <<inp, mainVars>>

\* lines 640-678: one iteration of the loop over the pages, and the end of
\* the loop
PageStep ==
    /\ pc = "page"
    /\ \/ \* the rows of the page do not load
          /\ out.page < out.num_pages
          /\ out' = attempt_failed(
                      [out EXCEPT !.state = update_page_progress(@, out.page)])
          /\ pc' = "loop"
       \/ \* the page is saved and the next page opens
          /\ out.page < out.num_pages - 1
          /\ out' = [out EXCEPT
                       !.state = update_page_progress(@, out.page),
                       !.saved_pages = @ \cup {<<out.period_idx, out.subject_idx, out.page>>},
                       !.page = @ + 1]
          /\ pc' = "page"
       \/ \* the page is saved; it is the last one, or the next page does not
          \* open and the loop is left by the break of line 672; with no page
          \* left the loop does nothing
          /\ out' = subject_completed(
                      IF out.page < out.num_pages
                      THEN [out EXCEPT
                              !.state = update_page_progress(@, out.page),
                              !.saved_pages = @ \cup {<<out.period_idx, out.subject_idx, out.page>>}]
                      ELSE out,
                      TRUE)
          /\ pc' = "subject"
    /\ UNCHANGED <<inp, mainVars>>

\* line 541 and lines 709-713: the third attempt has failed
GiveUp ==
    /\ pc = "loop"
    /\ out.retry_count >= scrape_max_retries
    /\ pc' = "failed"
    /\ UNCHANGED <<inp, out, mainVars>>

\* lines 701-703
KeyboardInterrupt ==
    /\ pc \in {"period", "subject", "page"}
    /\ pc' = "interrupted"
    /\ UNCHANGED <<inp, out, mainVars>>

NextScrape ==
    \/ StartAttempt
    \/ PeriodStep
    \/ SubjectStep
    \/ PageStep
    \/ GiveUp
    \/ KeyboardInterrupt

SpecScrape == InitScrape /\ [][NextScrape]_vars

\* C28: a subject that complete_subject marked for the current period is not
\* scraped again for that period, and a period that complete_period marked is
\* not processed again, in any attempt before reset_state.
C28_CompletedNeverScrapedAgain ==
    /\ pc = "page" =>
          <<out.period_idx, out.subject_idx>> \notin out.ever_completed
    /\ pc \in {"subject", "page"} =>
          out.period_idx \notin out.state.completed_periods

----------------------------------------------------------------------------
\* TaiwanNCLScraper14.py: CombinedScrapingState, scrape_regular_subjects,
\* scrape_management_periods and scrape_combined_approach.  inp.pages and
\* inp.period_pages are the numbers of result pages the site has for each
\* regular subject and for Management in each period.  out.state is the
\* dictionary of the state manager.  out.attempts counts the attempts
\* started; out.regular_returned, out.no_results and out.saved record what
\* happened since the last reset_state: that scrape_regular_subjects
\* returned, the searches that found nothing, and the pages passed to
\* save_page_data_to_db.

NumRegular == 2

NumManagementPeriods == 2

\* line 584
combined_max_retries == 3

\* lines 42-59
combined_default_state ==
    [phase |-> "regular", regular_subjects_completed |-> FALSE,
     current_subject_index |-> 0, current_page |-> 0,
     completed_subjects |-> {}, current_period_index |-> 0,
     completed_periods |-> {}]

\* lines 61-68
combined_update_subject_progress(state, subject_index) ==
    [state EXCEPT !.current_subject_index = subject_index, !.current_page = 0]

\* lines 70-75
combined_update_page_progress(state, page) ==
    [state EXCEPT !.current_page = page]

\* lines 77-81
combined_complete_subject(state, subject) ==
    [state EXCEPT !.completed_subjects = @ \cup {subject}]

\* variant of lines 83-87: the flag is set, the phase is left as it was
complete_regular_phase_flag_only(state) ==
    [state EXCEPT !.regular_subjects_completed = TRUE]

\* lines 83-87
complete_regular_phase(state) ==
    [state EXCEPT !.regular_subjects_completed = TRUE,
                  !.phase = "management_periods"]

\* lines 89-94
update_management_period_progress(state, period_index) ==
    [state EXCEPT !.current_period_index = period_index, !.current_page = 0]

\* lines 96-100
complete_management_period(state, period) ==
    [state EXCEPT !.completed_periods = @ \cup {period}]

InitCombined ==
    /\ MainIdle
    /\ pc = "attempt"
    /\ inp \in [pages        : [0..(NumRegular - 1) -> 0..MaxPages],
                period_pages : [0..(NumManagementPeriods - 1) -> 0..MaxPages]]
    /\ out = [state |-> combined_default_state, retry_count |-> 0,
              i |-> 0, period_idx |-> 0, page |-> 0, num_pages |-> 0,
              attempts |-> 0, regular_returned |-> FALSE,
              no_results |-> {}, saved |-> {}]

\* lines 633-641: the handler of an Exception of the attempt
combined_attempt_failed(o) == [o EXCEPT !.retry_count = @ + 1]

\* lines 600-613: the start of an attempt
CombinedStartAttempt ==
    /\ pc = "attempt"
    /\ out.retry_count < combined_max_retries
    /\ \/ \* initialize_driver raises
          /\ out' = combined_attempt_failed([out EXCEPT !.attempts = @ + 1])
          /\ pc' = "attempt"
       \/ /\ ~out.state.regular_subjects_completed
          /\ out' = [out EXCEPT !.attempts = @ + 1,
                                !.i = out.state.current_subject_index]
          /\ pc' = "regular"
       \/ /\ out.state.regular_subjects_completed
          /\ out' = [out EXCEPT !.attempts = @ + 1]
          /\ pc' = "phase2"
    /\ UNCHANGED <<inp, mainVars>>

\* lines 402-445 and 611-613: one step of the loop over the regular
\* subjects, up to the loop over the pages
RegularSubjectStep ==
    /\ pc = "regular"
    /\ \/ \* the loop ends, scrape_regular_subjects returns
          /\ out.i >= NumRegular
          /\ out' = [out EXCEPT !.state = complete_regular_phase(@),
                                !.regular_returned = TRUE]
          /\ pc' = "phase2"
       \/ /\ out.i < NumRegular
          /\ out.i \in out.state.completed_subjects
          /\ out' = [out EXCEPT !.i = @ + 1]
          /\ pc' = "regular"
       \/ \* navigate_to_advanced_search raises, or the total cannot be read
          /\ out.i < NumRegular
          /\ out.i \notin out.state.completed_subjects
          /\ out' = combined_attempt_failed(out)
          /\ pc' = "attempt"
       \/ \* refine_search returns False
          /\ out.i < NumRegular
          /\ out.i \notin out.state.completed_subjects
          /\ out' = [out EXCEPT
                       !.state = combined_complete_subject(@, out.i),
                       !.no_results = @ \cup {<<"subject", out.i>>},
                       !.i = @ + 1]
          /\ pc' = "regular"
       \/ /\ out.i < NumRegular
          /\ out.i \notin out.state.completed_subjects
          /\ inp.pages[out.i] > 0
          /\ out' = [out EXCEPT
                       !.state = combined_update_subject_progress(@, out.i),
                       !.num_pages = inp.pages[out.i],
                       !.page = 0]
          /\ pc' = "regular_page"
    /\ UNCHANGED <<inp, mainVars>>

\* lines 447-483: one iteration of the loop over the pages of a regular
\* subject, and the end of the loop
RegularPageStep ==
    /\ pc = "regular_page"
    /\ \/ \* the rows of the page do not load
          /\ out' = combined_attempt_failed(
                      [out EXCEPT !.state = combined_update_page_progress(@, out.page)])
          /\ pc' = "attempt"
       \/ \* the page is saved and the next page opens
          /\ out.page < out.num_pages - 1
          /\ out' = [out EXCEPT
                       !.state = combined_update_page_progress(@, out.page),
                       !.saved = @ \cup {<<"subject", out.i, out.page>>},
                       !.page = @ + 1]
          /\ pc' = "regular_page"
       \/ \* the page is saved; it is the last one, or the next page does not
          \* open and the loop is left by the break of line 476
          /\ out' = [out EXCEPT
                       !.state = combined_complete_subject(
                                   combined_update_page_progress(@, out.page), out.i),
                       !.saved = @ \cup {<<"subject", out.i, out.page>>},
                       !.i = @ + 1]
          /\ pc' = "regular"
    /\ UNCHANGED <<inp, mainVars>>

\* lines 618-621: the second phase starts when the phase is
\* 'management_periods'
StartManagement ==
    /\ pc = "phase2"
    /\ out' = [out EXCEPT !.period_idx =
                  IF out.state.phase = "management_periods"
                  THEN out.state.current_period_index
                  ELSE NumManagementPeriods]
    /\ pc' = "management"
    /\ UNCHANGED <<inp, mainVars>>

\* lines 495-539 and 623-628: one step of the loop over the Management
\* periods, up to the loop over the pages; after the loop reset_state
ManagementPeriodStep ==
    /\ pc = "management"
    /\ \/ \* the loop ends and the state is reset, or the period is in
          \* completed_periods and is skipped
          /\ out.period_idx >= NumManagementPeriods
                \/ out.period_idx \in out.state.completed_periods
          /\ out' = IF out.period_idx >= NumManagementPeriods
                    THEN [out EXCEPT !.state = combined_default_state,
                                     !.regular_returned = FALSE,
                                     !.no_results = {},
                                     !.saved = {}]
                    ELSE [out EXCEPT !.period_idx = @ + 1]
          /\ pc' = IF out.period_idx >= NumManagementPeriods
                   THEN "done" ELSE "management"
       \/ \* navigate_to_advanced_search raises, or the total cannot be read
          /\ out.period_idx < NumManagementPeriods
          /\ out.period_idx \notin out.state.completed_periods
          /\ out' = combined_attempt_failed(
                      [out EXCEPT !.state =
                          update_management_period_progress(@, out.period_idx)])
          /\ pc' = "attempt"
       \/ \* refine_search returns False
          /\ out.period_idx < NumManagementPeriods
          /\ out.period_idx \notin out.state.completed_periods
          /\ out' = [out EXCEPT
                       !.state = complete_management_period(
                                   update_management_period_progress(@, out.period_idx),
                                   out.period_idx),
                       !.no_results = @ \cup {<<"period", out.period_idx>>},
                       !.period_idx = @ + 1]
          /\ pc' = "management"
       \/ /\ out.period_idx < NumManagementPeriods
          /\ out.period_idx \notin out.state.completed_periods
          /\ inp.period_pages[out.period_idx] > 0
          /\ out' = [out EXCEPT
                       !.state = update_management_period_progress(@, out.period_idx),
                       !.num_pages = inp.period_pages[out.period_idx],
                       !.page = 0]
          /\ pc' = "management_page"
    /\ UNCHANGED <<inp, mainVars>>

\* lines 541-577: one iteration of the loop over the pages of a Management
\* period, and the end of the loop
ManagementPageStep ==
    /\ pc = "management_page"
    /\ \/ \* the rows of the page do not load
          /\ out' = combined_attempt_failed(
                      [out EXCEPT !.state = combined_update_page_progress(@, out.page)])
          /\ pc' = "attempt"
       \/ \* the page is saved and the next page opens
          /\ out.page < out.num_pages - 1
          /\ out' = [out EXCEPT
                       !.state = combined_update_page_progress(@, out.page),
                       !.saved = @ \cup {<<"period", out.period_idx, out.page>>},
                       !.page = @ + 1]
          /\ pc' = "management_page"
       \/ \* the page is saved; it is the last one, or the next page does not
          \* open and the loop is left by the break of line 570
          /\ out' = [out EXCEPT
                       !.state = complete_management_period(
                                   combined_update_page_progress(@, out.page),
                                   out.period_idx),
                       !.saved = @ \cup {<<"period", out.period_idx, out.page>>},
                       !.period_idx = @ + 1]
          /\ pc' = "management"
    /\ UNCHANGED <<inp, mainVars>>

\* line 600 and lines 638-641: the third attempt has failed
CombinedGiveUp ==
    /\ pc = "attempt"
    /\ out.retry_count >= combined_max_retries
    /\ pc' = "failed"
    /\ UNCHANGED <<inp, out, mainVars>>

\* lines 630-632
CombinedInterrupt ==
    /\ pc \in {"regular", "regular_page", "phase2", "management", "management_page"}
    /\ pc' = "interrupted"
    /\ UNCHANGED <<inp, out, mainVars>>

NextCombined ==
    \/ CombinedStartAttempt
    \/ RegularSubjectStep
    \/ RegularPageStep
    \/ StartManagement
    \/ ManagementPeriodStep
    \/ ManagementPageStep
    \/ CombinedGiveUp
    \/ CombinedInterrupt

SpecCombined == InitCombined /\ [][NextCombined]_vars

\* every step the function can take is taken in the end: each call it makes
\* returns or raises
SpecCombinedFair == SpecCombined /\ WF_vars(NextCombined)

\* scrape_combined_approach has returned
CombinedReturned == pc \in {"done", "failed", "interrupted"}

\* C29: regular_subjects_completed is true exactly when the phase is
\* 'management_periods'; scrape_management_periods runs only after
\* scrape_regular_subjects has returned normally, in this attempt or an
\* earlier one; the phase goes back to 'regular' only through the
\* reset_state of line 627; at most 3 attempts are started and
\* scrape_combined_approach returns in the end.
C29_PhasesAndAttempts ==
    /\ [](/\ out.state.regular_subjects_completed
                <=> out.state.phase = "management_periods"
          /\ pc \in {"management", "management_page"} => out.regular_returned
          /\ out.attempts <= combined_max_retries)
    /\ [][ (out.state.phase = "management_periods" /\ out'.state.phase = "regular")
              => (pc = "management" /\ out.period_idx >= NumManagementPeriods
                    /\ out'.state = combined_default_state /\ pc' = "done") ]_vars
    /\ <>CombinedReturned

\* the third attempt is scraping the second Management period: the regular
\* subjects were completed in an earlier attempt
C29_Witness ==
    /\ pc = "management_page"
    /\ out.attempts = 3
    /\ out.retry_count = 2
    /\ out.period_idx = 1
    /\ out.state.phase = "management_periods"
    /\ out.state.completed_subjects = 0..(NumRegular - 1)

\* the pages of a subject or period that were passed to save_page_data_to_db
AllPagesSaved(kind, k, n) == \A g \in 0..(n - 1) : <<kind, k, g>> \in out.saved

\* C30: a subject, or a Management period, is marked completed only if its
\* search found no results or every one of its pages was extracted and
\* passed to save_page_data_to_db.
C30_CompletedOnlyWhenAllPagesSaved ==
    /\ \A s \in out.state.completed_subjects :
          \/ <<"subject", s>> \in out.no_results
          \/ AllPagesSaved("subject", s, inp.pages[s])
    /\ \A p \in out.state.completed_periods :
          \/ <<"period", p>> \in out.no_results
          \/ AllPagesSaved("period", p, inp.period_pages[p])

====
